---- MODULE Spec2Model ----
(***************************************************************************)
(* Model of the software-rendered castle demo (src/#####sm64.py and its    *)
(* variants): the character controller, the chase camera and the triangle  *)
(* projection pipeline.                                                    *)
(*                                                                         *)
(* Arithmetic.  The program computes in floating point; the model uses     *)
(* fixed point.  Lengths, velocities and angles are integers in            *)
(* hundredths (1.2 is 120, 0.09 rad is 9); sines and cosines are in        *)
(* thousandths; ratios such as FRICTION are in percent.  A product is      *)
(* rounded toward zero to the fixed-point grid (TruncDiv), so a scaled     *)
(* value is never the identity of its argument.                            *)
(***************************************************************************)
EXTENDS Integers, Sequences, FiniteSets, TLC

VARIABLES
    player,     \* Game.player: [pos, vel, yaw, grounded, walk_cycle]
    keys,       \* the pygame.key.get_pressed() snapshot of the current frame
    cam,        \* Game.cam_pos and Game.cam_yaw: [pos, yaw]
    pc,         \* position of Game.run inside one frame
    frame,      \* frames started so far
    moves,      \* frames so far on which a movement key was held
    jumps,      \* jumps started so far
    glide,      \* length of the current glide: consecutive character steps without
                \* forward or backward input that left a horizontal velocity
    snap,       \* the state at the start of the last executed step
    tri,        \* project_triangle: the triangle argument
    view,       \* project_triangle: the camera pose arguments
    res,        \* project_triangle: the returned value
    level,      \* Game.level.triangles, the list Game.draw reads
    mesh,       \* Game.draw: player_tris, the character triangles of this frame
    screen_tris, \* Game.draw: the local list of projected triangles
    polygons,   \* the pygame.draw.polygon calls made on the render surface since
                \* it was last filled, in call order
    tris,       \* the target list of the mesh builders (Level.triangles in build)
    call,       \* the last mesh builder call: its arguments, the list it was given,
                \* and the exception it raised, if any
    step,       \* Level.build: the number of builder calls made so far
    levels,     \* the triangle lists of the Level objects constructed so far
    state,      \* Game.state of src/geminism64.py and src/ultramario4k0x.py
    builds,     \* calls of Game.init_gameplay and Game.init_intro made so far, each
                \* of which constructs the objects it assigns
    ticks,      \* pygame.time.get_ticks(), in milliseconds
    intro_start_time, \* Game.intro_start_time of src/ultramario4k0x.py
    event       \* the last event taken from pygame.event.get() by handle_input

drawVars == <<level, mesh, screen_tris, polygons>>
buildVars == <<tris, call, step, levels>>
menuVars == <<state, builds, ticks, intro_start_time, event>>

vars == <<player, keys, cam, pc, frame, moves, jumps, glide, snap, tri, view, res,
          drawVars, buildVars, menuVars>>

----------------------------------------------------------------------------
(* Bounds of the exploration *)

\* frames on which the environment holds a movement key (arrows, WASD, shift)
MaxMoves == 1
\* jumps the environment may start
MaxJumps == 2
\* frames of the whole game loop (character, then camera) that are explored
MaxFrames == 6

----------------------------------------------------------------------------
(* Program constants, src/#####sm64.py lines 36-42, in fixed point *)

GRAVITY == 120
JUMP_FORCE == 1800
MOVE_SPEED == 80
RUN_SPEED == 140
FRICTION == 82
TURN_SPEED == 9
CAM_SMOOTH == 8

\* one sine unit, and a ratio of one
TRIG == 1000
PERCENT == 100

----------------------------------------------------------------------------
(* Fixed-point helpers *)

Abs(n) == IF n < 0 THEN -n ELSE n

Sgn(n) == IF n < 0 THEN -1 ELSE IF n > 0 THEN 1 ELSE 0

\* n / d rounded toward zero
TruncDiv(n, d) == Sgn(n) * (Abs(n) \div d)

\* math.sin and math.cos at the multiples k * 0.09 rad, k = 0..35, in thousandths
SinTab ==
    << 0, 90, 179, 267, 352, 435, 514, 589, 659, 724, 783, 836,
       882, 921, 952, 976, 991, 999, 999, 990, 974, 949, 917, 878,
       831, 778, 718, 653, 582, 507, 427, 344, 259, 171, 82, -8 >>

CosTab ==
    << 1000, 996, 984, 964, 936, 900, 858, 808, 752, 689, 622, 549,
       471, 390, 306, 219, 130, 41, -49, -139, -227, -314, -398, -479,
       -556, -628, -696, -757, -813, -862, -904, -939, -966, -985, -997, -1000 >>

\* the largest angle the tables cover, as a multiple of TURN_SPEED
MaxAngle == 35

\* math.sin(yaw), yaw in hundredths of a radian and a multiple of TURN_SPEED
Sin(yaw) ==
    LET k == TruncDiv(yaw, TURN_SPEED)
    IN  IF k < 0 THEN 0 - SinTab[1 - k] ELSE SinTab[1 + k]

\* math.cos(yaw)
Cos(yaw) ==
    LET k == TruncDiv(yaw, TURN_SPEED)
    IN  CosTab[1 + Abs(k)]

\* math.atan2(dx, dz) to the grid of the tables: the angle in (-pi, pi) whose unit
\* vector (sin, cos) has the largest projection on (dx, dz); atan2(0, 0) is 0
Atan2(dx, dz) ==
    IF dx = 0 /\ dz = 0 THEN 0
    ELSE LET half == (1 - MaxAngle) .. (MaxAngle - 1)
             dot == [a \in half |->
                        dx * Sin(a * TURN_SPEED) + dz * Cos(a * TURN_SPEED)]
             best == CHOOSE a \in half : \A b \in half : dot[a] >= dot[b]
         IN  best * TURN_SPEED

Vec(x, y, z) == [x |-> x, y |-> y, z |-> z]

----------------------------------------------------------------------------
(* Input snapshot *)

NoKeys ==
    [up |-> FALSE, down |-> FALSE, left |-> FALSE, right |-> FALSE,
     shift |-> FALSE, space |-> FALSE]

\* the movement-key combinations the environment may hold
MoveChoices ==
    { [NoKeys EXCEPT !.up = TRUE],
      [NoKeys EXCEPT !.up = TRUE, !.down = TRUE],
      [NoKeys EXCEPT !.up = TRUE, !.shift = TRUE],
      [NoKeys EXCEPT !.up = TRUE, !.left = TRUE],
      [NoKeys EXCEPT !.left = TRUE, !.right = TRUE] }

IsMove(k) == k.up \/ k.down \/ k.left \/ k.right \/ k.shift

----------------------------------------------------------------------------
(* Player.update, src/#####sm64.py lines 246-280 *)

\* Forward with opposite keys cancelling
ForwardCancelling(k) == (IF k.up THEN 1 ELSE 0) - (IF k.down THEN 1 ELSE 0)

\* lines 248-250: a later "if" overwrites the earlier one
Forward(k) == IF k.down THEN -1 ELSE IF k.up THEN 1 ELSE 0

\* lines 248, 251-252
Turning(k) == IF k.right THEN -1 ELSE IF k.left THEN 1 ELSE 0

\* line 247
Speed(k) == IF k.shift THEN RUN_SPEED ELSE MOVE_SPEED

\* line 254
ApplyTurn(p, k) == [p EXCEPT !.yaw = @ + Turning(k) * TURN_SPEED]

\* math.sin(self.yaw) * speed * forward
Impulse(trig, speed, forward) == TruncDiv(trig * speed, TRIG) * forward

\* ApplyMove advancing the walk cycle in the air as well
ApplyMoveWalkInAir(p, k) ==
    IF Forward(k) # 0
    THEN [p EXCEPT
            !.vel.x = @ + Impulse(Sin(p.yaw), Speed(k), Forward(k)),
            !.vel.z = @ + Impulse(Cos(p.yaw), Speed(k), Forward(k)),
            !.walk_cycle = @ + (IF Speed(k) = RUN_SPEED THEN 45 ELSE 30)]
    ELSE [p EXCEPT !.walk_cycle = 0]

\* lines 257-263
ApplyMove(p, k) ==
    IF Forward(k) # 0
    THEN [p EXCEPT
            !.vel.x = @ + Impulse(Sin(p.yaw), Speed(k), Forward(k)),
            !.vel.z = @ + Impulse(Cos(p.yaw), Speed(k), Forward(k)),
            !.walk_cycle = IF p.grounded
                           THEN @ + (IF Speed(k) = RUN_SPEED THEN 45 ELSE 30)
                           ELSE @]
    ELSE [p EXCEPT !.walk_cycle = 0]

\* v * FRICTION
Damp(v) == TruncDiv(v * FRICTION, PERCENT)

\* ApplyFriction damping on the ground only
ApplyFrictionGroundOnly(p) ==
    IF p.grounded THEN [p EXCEPT !.vel.x = Damp(@), !.vel.z = Damp(@)] ELSE p

\* lines 265-266
ApplyFriction(p) == [p EXCEPT !.vel.x = Damp(@), !.vel.z = Damp(@)]

\* ApplyJump leaving the grounded flag set
ApplyJumpKeepsGrounded(p, k) ==
    IF k.space /\ p.grounded THEN [p EXCEPT !.vel.y = JUMP_FORCE] ELSE p

\* ApplyJump without the grounded test
ApplyJumpInAir(p, k) ==
    IF k.space THEN [p EXCEPT !.vel.y = JUMP_FORCE, !.grounded = FALSE] ELSE p

\* lines 268-270
ApplyJump(p, k) ==
    IF k.space /\ p.grounded
    THEN [p EXCEPT !.vel.y = JUMP_FORCE, !.grounded = FALSE]
    ELSE p

\* line 272
ApplyGravity(p) == [p EXCEPT !.vel.y = @ - GRAVITY]

\* lines 273-275
Integrate(p) ==
    [p EXCEPT !.pos.x = @ + p.vel.x, !.pos.y = @ + p.vel.y, !.pos.z = @ + p.vel.z]

\* FloorCollide clamping without setting the grounded flag
FloorCollideNoFlag(p) ==
    IF p.pos.y < 0 THEN [p EXCEPT !.pos.y = 0, !.vel.y = 0] ELSE p

\* FloorCollide landing also at the floor height itself
FloorCollideAtOrBelow(p) ==
    IF p.pos.y <= 0
    THEN [p EXCEPT !.pos.y = 0, !.vel.y = 0, !.grounded = TRUE]
    ELSE p

\* lines 277-280
FloorCollide(p) ==
    IF p.pos.y < 0
    THEN [p EXCEPT !.pos.y = 0, !.vel.y = 0, !.grounded = TRUE]
    ELSE p

\* Player.update applying the friction before the impulse of the frame
PlayerUpdateFrictionFirst(p, k) ==
    FloorCollide(Integrate(ApplyGravity(ApplyJump(
        ApplyMove(ApplyFriction(ApplyTurn(p, k)), k), k))))

\* lines 246-280
PlayerUpdate(p, k) ==
    FloorCollide(Integrate(ApplyGravity(ApplyJump(
        ApplyFriction(ApplyMove(ApplyTurn(p, k), k)), k))))

\* Player.__init__, lines 239-244
NewPlayer(x, y, z) ==
    [pos |-> Vec(x, y, z), vel |-> Vec(0, 0, 0), yaw |-> 0,
     grounded |-> FALSE, walk_cycle |-> 0]

----------------------------------------------------------------------------
(* Game.update_camera, src/#####sm64.py lines 376-387 *)

CAM_DIST == 34000
CAM_PITCH_HEIGHT == 12500

\* lines 377-379
CamTarget(p) ==
    Vec(p.pos.x - TruncDiv(Sin(p.yaw) * CAM_DIST, TRIG),
        p.pos.y + CAM_PITCH_HEIGHT,
        p.pos.z - TruncDiv(Cos(p.yaw) * CAM_DIST, TRIG))

\* (target - cam) * CAM_SMOOTH
Smooth(d) == TruncDiv(d * CAM_SMOOTH, PERCENT)

\* lines 381-383
CamMove(c, t) ==
    Vec(c.x + Smooth(t.x - c.x), c.y + Smooth(t.y - c.y), c.z + Smooth(t.z - c.z))

\* lines 376-387
UpdateCamera(c, p) ==
    LET np == CamMove(c.pos, CamTarget(p))
    IN  [pos |-> np, yaw |-> Atan2(p.pos.x - np.x, p.pos.z - np.z)]

----------------------------------------------------------------------------
(* Game.__init__ and Game.run, src/#####sm64.py lines 359-374, 432-444 *)

\* the value None, and the value of a result not yet returned
None == [kind |-> "None"]
Pending == [kind |-> "pending"]

NoTri == [v1 |-> Vec(0, 0, 0), v2 |-> Vec(0, 0, 0), v3 |-> Vec(0, 0, 0)]
NoView == [cam |-> Vec(0, 0, 0), yaw |-> 0]

Snapshot == [player |-> player, cam |-> cam, keys |-> keys]

\* no mesh builder call made
NoCall == [op |-> "none", raised |-> "none"]

\* the variables of Game.draw, of the mesh builders and of the menu while none of
\* them is running
NoDraw == level = <<>> /\ mesh = <<>> /\ screen_tris = <<>> /\ polygons = <<>>
NoBuild == tris = <<>> /\ call = NoCall /\ step = 0 /\ levels = <<>>
NoClock == ticks = 0 /\ intro_start_time = 0 /\ event = "none"
NoMenu == state = "PLAY" /\ builds = 1 /\ NoClock

Init ==
    /\ player = NewPlayer(0, 2000, -28000)
    /\ cam = [pos |-> Vec(0, 11000, -65000), yaw |-> 0]
    /\ keys = NoKeys
    /\ pc = "update"
    /\ frame = 0
    /\ moves = 0
    /\ jumps = 0
    /\ glide = 0
    /\ snap = [player |-> player, cam |-> cam, keys |-> keys]
    /\ tri = NoTri
    /\ view = NoView
    /\ res = None
    /\ NoDraw /\ NoBuild /\ NoMenu

\* the snapshots the environment may deliver this frame
KeyChoices ==
    { [m EXCEPT !.space = s] :
        m \in {NoKeys} \cup (IF moves < MaxMoves THEN MoveChoices ELSE {}),
        s \in IF player.grounded /\ jumps >= MaxJumps THEN {FALSE} ELSE BOOLEAN }

\* lines 440-441: keys = pygame.key.get_pressed(); self.player.update(keys, 1/60)
\* the character step with input k that takes the character to p
TickTo(p, k) ==
    /\ keys' = k
    /\ player' = p
    /\ moves' = IF IsMove(k) THEN moves + 1 ELSE moves
    /\ jumps' = IF k.space /\ player.grounded THEN jumps + 1 ELSE jumps
    /\ glide' = IF k.up \/ k.down THEN 0
                ELSE IF player'.vel.x = 0 /\ player'.vel.z = 0 THEN glide
                ELSE IF glide < 40 THEN glide + 1 ELSE glide
    /\ snap' = Snapshot

Tick(k) == TickTo(PlayerUpdate(player, k), k)

\* one frame's character step inside the game loop
Update ==
    /\ pc = "update"
    /\ frame < MaxFrames
    /\ \E k \in KeyChoices : Tick(k)
    /\ frame' = frame + 1
    /\ pc' = "camera"
    /\ UNCHANGED <<cam, tri, view, res, drawVars, buildVars, menuVars>>

\* the camera step following the character as it was before this frame's update
CameraStale ==
    /\ pc = "camera"
    /\ cam' = UpdateCamera(cam, snap.player)
    /\ snap' = Snapshot
    /\ pc' = "update"
    /\ UNCHANGED <<player, keys, frame, moves, jumps, glide, tri, view, res, drawVars, buildVars, menuVars>>

\* line 442: self.update_camera()
Camera ==
    /\ pc = "camera"
    /\ cam' = UpdateCamera(cam, player)
    /\ snap' = Snapshot
    /\ pc' = "update"
    /\ UNCHANGED <<player, keys, frame, moves, jumps, glide, tri, view, res, drawVars, buildVars, menuVars>>

Next == Update \/ Camera

\* the game loop of src/#####sm64.py: character step, then camera step
Spec == Init /\ [][Next]_vars

\* the character controller on its own: Player.update once per frame, over any
\* number of frames (no other step of the frame writes the character state)
PlayerTick ==
    /\ \E k \in KeyChoices : Tick(k)
    /\ UNCHANGED <<cam, pc, frame, tri, view, res, drawVars, buildVars, menuVars>>

PlayerSpec == Init /\ [][PlayerTick]_vars

\* the character controller under an environment that only walks forward while
\* turning left, or jumps; Game.run never stops calling Player.update (lines
\* 433-441), hence the fairness
LiveTick ==
    /\ \E k \in {c \in KeyChoices : ~c.shift /\ ~c.down /\ ~c.right /\ (c.up <=> c.left)} :
           Tick(k)
    /\ UNCHANGED <<cam, pc, frame, tri, view, res, drawVars, buildVars, menuVars>>

LiveSpec == Init /\ [][LiveTick]_vars /\ WF_vars(LiveTick)

----------------------------------------------------------------------------
(* The variant src/ultramario4k1.18.26.py: the same constants (lines 37-44), a *)
(* character without walk cycle, another spawn point                           *)

\* lines 315-317
UMApplyMove(p, k) ==
    IF Forward(k) # 0
    THEN [p EXCEPT
            !.vel.x = @ + Impulse(Sin(p.yaw), Speed(k), Forward(k)),
            !.vel.z = @ + Impulse(Cos(p.yaw), Speed(k), Forward(k))]
    ELSE p

\* Player.update integrating the position before gravity is applied
UMPlayerUpdateIntegrateFirst(p, k) ==
    FloorCollide(ApplyGravity(Integrate(ApplyJump(
        ApplyFriction(UMApplyMove(ApplyTurn(p, k), k)), k))))

\* Player.update, lines 300-340: turn, move, friction, jump, gravity,
\* integration, floor collision, statement for statement as in src/#####sm64.py
UMPlayerUpdate(p, k) ==
    FloorCollide(Integrate(ApplyGravity(ApplyJump(
        ApplyFriction(UMApplyMove(ApplyTurn(p, k), k)), k))))

\* Player.__init__, lines 294-298
UMNewPlayer(x, y, z) ==
    [pos |-> Vec(x, y, z), vel |-> Vec(0, 0, 0), yaw |-> 0, grounded |-> FALSE]

\* Game.__init__, line 395: Player(0, 10, -400)
UMSpawn == UMNewPlayer(0, 1000, -40000)

\* Game.__init__, lines 395-402
UMInit ==
    /\ player = UMSpawn
    /\ cam = [pos |-> Vec(0, 10000, -60000), yaw |-> 0]
    /\ keys = NoKeys
    /\ pc = "update"
    /\ frame = 0
    /\ moves = 0
    /\ jumps = 0
    /\ glide = 0
    /\ snap = [player |-> player, cam |-> cam, keys |-> keys]
    /\ tri = NoTri
    /\ view = NoView
    /\ res = None
    /\ NoDraw /\ NoBuild /\ NoMenu

\* Game.run, lines 487-488: the character step of each frame
UMTick ==
    /\ \E k \in KeyChoices : TickTo(UMPlayerUpdate(player, k), k)
    /\ UNCHANGED <<cam, pc, frame, tri, view, res, drawVars, buildVars, menuVars>>

UMSpec == UMInit /\ [][UMTick]_vars

----------------------------------------------------------------------------
(* project_triangle, src/#####sm64.py lines 57-90.  Screen coordinates are in *)
(* tenths of a pixel.                                                          *)

RENDER_WIDTH == 400
RENDER_HEIGHT == 300
\* line 74: fov = 300
FOV == 300
\* line 71: the near threshold 5
NEAR == 500
\* line 76: the smallest divisor 0.1
MIN_DEPTH == 10
\* tenths of a pixel per pixel
PIXEL == 10

Triangle(v1, v2, v3, color) == [v1 |-> v1, v2 |-> v2, v3 |-> v3, color |-> color]

\* lines 61-63: a vertex relative to the camera
Rel(v, cam_x, cam_y, cam_z) == Vec(v.x - cam_x, v.y - cam_y, v.z - cam_z)

\* lines 66-68: rotation about the Y axis
RotX(x, z, cos_yaw, sin_yaw) == TruncDiv(x * cos_yaw - z * sin_yaw, TRIG)
RotZ(x, z, cos_yaw, sin_yaw) == TruncDiv(x * sin_yaw + z * cos_yaw, TRIG)

\* the near test rejecting only what is behind the camera
NearRejectBehind(rz1, rz2, rz3) == rz1 < 0 /\ rz2 < 0 /\ rz3 < 0

\* the near test rejecting a triangle as soon as one vertex is near
NearRejectAny(rz1, rz2, rz3) == rz1 < NEAR \/ rz2 < NEAR \/ rz3 < NEAR

\* line 71
NearReject(rz1, rz2, rz3) == rz1 < NEAR /\ rz2 < NEAR /\ rz3 < NEAR

\* line 76: max(rz, 0.1)
ClampDepth(rz) == IF rz > MIN_DEPTH THEN rz ELSE MIN_DEPTH

\* lines 78-80
ScreenX(rx, rz, half_w) == TruncDiv(rx * FOV * PIXEL, rz) + half_w * PIXEL
ScreenY(y, rz, half_h) == TruncDiv(0 - y * FOV * PIXEL, rz) + half_h * PIXEL

\* the screen-bounds test rejecting a triangle whose three X (or three Y) are all
\* outside the interval, whichever end each one is beyond
BoundsRejectEitherSide(sx1, sx2, sx3, sy1, sy2, sy3, width, height) ==
    \/ \A s \in {sx1, sx2, sx3} : s < 0 - width * PIXEL \/ s > width * 2 * PIXEL
    \/ \A s \in {sy1, sy2, sy3} : s < 0 - height * PIXEL \/ s > height * 2 * PIXEL

\* lines 83-86
BoundsReject(sx1, sx2, sx3, sy1, sy2, sy3, width, height) ==
    \/ sx1 < 0 - width * PIXEL /\ sx2 < 0 - width * PIXEL /\ sx3 < 0 - width * PIXEL
    \/ sx1 > width * 2 * PIXEL /\ sx2 > width * 2 * PIXEL /\ sx3 > width * 2 * PIXEL
    \/ sy1 < 0 - height * PIXEL /\ sy2 < 0 - height * PIXEL /\ sy3 < 0 - height * PIXEL
    \/ sy1 > height * 2 * PIXEL /\ sy2 > height * 2 * PIXEL /\ sy3 > height * 2 * PIXEL

\* s * 0.33333 rounded down, computed in two parts to stay within 32 bits
TimesPoint33333(s) ==
    LET n == (s \div 1000) * 33333
    IN  (n \div 100) + ((n % 100) * 1000 + (s % 1000) * 33333) \div 100000

\* line 89
AvgDepth(rz1, rz2, rz3) == TimesPoint33333(rz1 + rz2 + rz3)

\* lines 57-90, with every intermediate value of the call
ProjectTrace(t, cam_x, cam_y, cam_z, cos_yaw, sin_yaw, width, height, half_w, half_h) ==
    LET p1 == Rel(t.v1, cam_x, cam_y, cam_z)
        p2 == Rel(t.v2, cam_x, cam_y, cam_z)
        p3 == Rel(t.v3, cam_x, cam_y, cam_z)
        rx1 == RotX(p1.x, p1.z, cos_yaw, sin_yaw)
        rx2 == RotX(p2.x, p2.z, cos_yaw, sin_yaw)
        rx3 == RotX(p3.x, p3.z, cos_yaw, sin_yaw)
        rz1 == RotZ(p1.x, p1.z, cos_yaw, sin_yaw)
        rz2 == RotZ(p2.x, p2.z, cos_yaw, sin_yaw)
        rz3 == RotZ(p3.x, p3.z, cos_yaw, sin_yaw)
        near == NearReject(rz1, rz2, rz3)
        d1 == ClampDepth(rz1)
        d2 == ClampDepth(rz2)
        d3 == ClampDepth(rz3)
        sx1 == ScreenX(rx1, d1, half_w)
        sy1 == ScreenY(p1.y, d1, half_h)
        sx2 == ScreenX(rx2, d2, half_w)
        sy2 == ScreenY(p2.y, d2, half_h)
        sx3 == ScreenX(rx3, d3, half_w)
        sy3 == ScreenY(p3.y, d3, half_h)
        culled == BoundsReject(sx1, sx2, sx3, sy1, sy2, sy3, width, height)
    IN  [depth |-> <<rz1, rz2, rz3>>,
         near |-> near,
         div |-> <<d1, d2, d3>>,
         culled |-> ~near /\ culled,
         pts |-> << <<sx1, sy1>>, <<sx2, sy2>>, <<sx3, sy3>> >>,
         result |-> IF near \/ culled THEN None
                    ELSE [kind |-> "tuple",
                          z |-> AvgDepth(d1, d2, d3),
                          pts |-> << <<sx1, sy1>>, <<sx2, sy2>>, <<sx3, sy3>> >>,
                          color |-> t.color]]

\* project_triangle(tri, cam_x, cam_y, cam_z, cos_yaw, sin_yaw, width, height,
\* half_w, half_h): None, or (avg_z, [three points], color)
ProjectTriangle(t, cam_x, cam_y, cam_z, cos_yaw, sin_yaw, width, height, half_w, half_h) ==
    ProjectTrace(t, cam_x, cam_y, cam_z, cos_yaw, sin_yaw,
                 width, height, half_w, half_h).result

\* Game.draw, lines 405-411: the intermediate values of the call for one triangle
\* under the camera pose v
DrawProject(t, v) ==
    ProjectTrace(t, v.cam.x, v.cam.y, v.cam.z, Cos(v.yaw), Sin(v.yaw),
                 RENDER_WIDTH, RENDER_HEIGHT, RENDER_WIDTH \div 2, RENDER_HEIGHT \div 2)

\* camera poses: the initial one (lines 371-372), and two turned ones
ViewChoices ==
    { [cam |-> Vec(0, 11000, -65000), yaw |-> 0],
      [cam |-> Vec(0, 11000, -65000), yaw |-> 5 * TURN_SPEED],
      [cam |-> Vec(-2000, 12500, -65000), yaw |-> 0 - 3 * TURN_SPEED] }

\* vertices at chosen depths in front of the initial camera pose: far (300),
\* just below the near threshold (4.99), on it (5.00), behind the camera (-20),
\* below the smallest divisor (0.05), very far (3000), and far off to either side
VertexChoices ==
    { Vec(0, 11000, -35000),
      Vec(500, 10900, -64501),
      Vec(-300, 11100, -64500),
      Vec(1000, 11000, -67000),
      Vec(200, 11050, -64995),
      Vec(0, 0, 235000),
      Vec(100000, 11000, -64000),
      Vec(-100000, 11000, -64000) }

TriangleChoices ==
    { Triangle(a, b, c, <<220, 215, 205>>) :
        a \in VertexChoices, b \in VertexChoices, c \in VertexChoices }

\* one call of project_triangle on chosen arguments
ProjInit ==
    /\ tri \in TriangleChoices
    /\ view \in ViewChoices
    /\ res = Pending
    /\ player = NewPlayer(0, 2000, -28000)
    /\ cam = [pos |-> view.cam, yaw |-> view.yaw]
    /\ keys = NoKeys
    /\ pc = "draw"
    /\ frame = 0
    /\ moves = 0
    /\ jumps = 0
    /\ glide = 0
    /\ snap = [player |-> player, cam |-> cam, keys |-> keys]
    /\ NoDraw /\ NoBuild /\ NoMenu

Project ==
    /\ pc = "draw"
    /\ res = Pending
    /\ res' = ProjectTriangle(tri, view.cam.x, view.cam.y, view.cam.z,
                               Cos(view.yaw), Sin(view.yaw),
                               RENDER_WIDTH, RENDER_HEIGHT,
                               RENDER_WIDTH \div 2, RENDER_HEIGHT \div 2)
    /\ UNCHANGED <<player, keys, cam, pc, frame, moves, jumps, glide, snap, tri, view,
                   drawVars, buildVars, menuVars>>

ProjSpec == ProjInit /\ [][Project]_vars

----------------------------------------------------------------------------
(* Game.draw, src/#####sm64.py lines 389-430: projection of every triangle, *)
(* depth sort, shading and rasterization                                    *)

\* lines 14-16, 21
WHITE == <<255, 255, 255>>
RED == <<220, 20, 60>>
BLUE == <<0, 0, 200>>
CASTLE_STONE == <<220, 215, 205>>

\* line 418: the depth 2200.0 at which the uncapped shade would reach zero, and the
\* cap 0.65 of the darkening as a depth (0.65 * 2200.0), in hundredths
SHADE_RANGE == 220000
SHADE_CAP == 143000

\* lines 410-412: the results of project_triangle that are not None, in list order
Survivors(ts, v) ==
    SelectSeq([i \in 1..Len(ts) |-> DrawProject(ts[i], v).result],
              LAMBDA r : r # None)

\* the list sorted by falling depth, an element being moved in front of the
\* equally deep elements that preceded it
SortByDepthReversingTies(s) == SortSeq(s, LAMBDA a, b : a.z >= b.z)

\* line 414: screen_tris.sort(key=lambda x: x[0], reverse=True): the library sort,
\* in which an element is moved in front of the less deep elements only
SortByDepth(s) == SortSeq(s, LAMBDA a, b : a.z > b.z)

\* the shade without the cap of min(..., 0.65)
ShadeUncapped(z) == SHADE_RANGE - z

\* line 418: shade = 1.0 - min(z / 2200.0, 0.65), as a multiple of 1 / SHADE_RANGE
Shade(z) == SHADE_RANGE - (IF z < SHADE_CAP THEN z ELSE SHADE_CAP)

\* lines 419-421: max(0, min(255, int(c * shade)))
Channel(c, z) ==
    LET n == TruncDiv(c * Shade(z), SHADE_RANGE)
    IN  IF n < 0 THEN 0 ELSE IF n > 255 THEN 255 ELSE n

\* line 422: the pygame.draw.polygon call for one projected triangle
Polygon(t) ==
    [color |-> <<Channel(t.color[1], t.z), Channel(t.color[2], t.z),
                 Channel(t.color[3], t.z)>>,
     pts |-> t.pts]

\* the most triangles handed to one draw, level and character together
MaxTris == 3

\* triangles seen from the poses of ViewChoices: two of equal depth that differ in
\* vertex order and color, one beyond the depth at which the shade is capped, and
\* one behind the camera
DrawTriangles ==
    { Triangle(Vec(0, 11000, -35000), Vec(-300, 11100, -64500), Vec(0, 0, 235000),
               CASTLE_STONE),
      Triangle(Vec(-300, 11100, -64500), Vec(0, 0, 235000), Vec(0, 11000, -35000),
               RED),
      Triangle(Vec(0, 0, 235000), Vec(0, 0, 235000), Vec(0, 11000, -35000), WHITE),
      Triangle(Vec(1000, 11000, -67000), Vec(1000, 11000, -67000),
               Vec(200, 11050, -64995), BLUE) }

\* the lists of at most n triangles of DrawTriangles
TriLists(n) == UNION { [1..k -> DrawTriangles] : k \in 0..n }

\* Game.draw on chosen level and character triangles under a chosen camera pose
DrawInit ==
    /\ level \in TriLists(MaxTris)
    /\ mesh \in TriLists(MaxTris - Len(level))
    /\ view \in ViewChoices
    /\ screen_tris = <<>>
    /\ polygons = <<>>
    /\ pc = "collect"
    /\ player = NewPlayer(0, 2000, -28000)
    /\ cam = [pos |-> view.cam, yaw |-> view.yaw]
    /\ keys = NoKeys
    /\ frame = 0
    /\ moves = 0
    /\ jumps = 0
    /\ glide = 0
    /\ snap = [player |-> player, cam |-> cam, keys |-> keys]
    /\ tri = NoTri
    /\ res = None
    /\ NoBuild /\ NoMenu

\* lines 401-412: all_tris = self.level.triangles + player_tris, and the loop
\* appending every result that is not None
DrawCollect ==
    /\ pc = "collect"
    /\ screen_tris' = Survivors(level \o mesh, view)
    /\ pc' = "sort"
    /\ UNCHANGED <<player, keys, cam, frame, moves, jumps, glide, snap, tri, view, res,
                   level, mesh, polygons, buildVars, menuVars>>

\* line 414
DrawSort ==
    /\ pc = "sort"
    /\ screen_tris' = SortByDepth(screen_tris)
    /\ pc' = "raster"
    /\ UNCHANGED <<player, keys, cam, frame, moves, jumps, glide, snap, tri, view, res,
                   level, mesh, polygons, buildVars, menuVars>>

\* the loop of lines 416-422 walking the list from its nearest end
DrawPolygonNearestFirst ==
    /\ pc = "raster"
    /\ Len(polygons) < Len(screen_tris)
    /\ polygons' = Append(polygons, Polygon(screen_tris[Len(screen_tris) - Len(polygons)]))
    /\ UNCHANGED <<player, keys, cam, pc, frame, moves, jumps, glide, snap, tri, view,
                   res, level, mesh, screen_tris, buildVars, menuVars>>

\* lines 416-422: one iteration of the loop over screen_tris
DrawPolygon ==
    /\ pc = "raster"
    /\ Len(polygons) < Len(screen_tris)
    /\ polygons' = Append(polygons, Polygon(screen_tris[Len(polygons) + 1]))
    /\ UNCHANGED <<player, keys, cam, pc, frame, moves, jumps, glide, snap, tri, view,
                   res, level, mesh, screen_tris, buildVars, menuVars>>

\* lines 424-430 and 444: the loop is over, the surface is scaled and shown
DrawFlip ==
    /\ pc = "raster"
    /\ Len(polygons) = Len(screen_tris)
    /\ pc' = "flip"
    /\ UNCHANGED <<player, keys, cam, frame, moves, jumps, glide, snap, tri, view, res,
                   drawVars, buildVars, menuVars>>

\* the next frame: the camera has moved, the character triangles are generated
\* anew from the same character state (line 401), the surface is filled (line
\* 396) and screen_tris is a new empty list (line 404)
DrawBegin ==
    /\ pc = "flip"
    /\ view' \in ViewChoices
    /\ cam' = [pos |-> view'.cam, yaw |-> view'.yaw]
    /\ mesh' = mesh
    /\ screen_tris' = <<>>
    /\ polygons' = <<>>
    /\ pc' = "collect"
    /\ snap' = [player |-> player, cam |-> cam', keys |-> keys]
    /\ UNCHANGED <<player, keys, frame, moves, jumps, glide, tri, res,
                   level, buildVars, menuVars>>

DrawNext == DrawCollect \/ DrawSort \/ DrawPolygon \/ DrawFlip \/ DrawBegin

DrawSpec == DrawInit /\ [][DrawNext]_vars

----------------------------------------------------------------------------
(* The mesh builders, src/#####sm64.py lines 93-166.  A builder appends to the *)
(* list it is given: the operator takes the list and returns the longer list.  *)

\* lines 17-19, 22-31
YELLOW == <<255, 215, 0>>
GOLD == <<218, 165, 32>>
CASTLE_DARK == <<160, 155, 145>>
CASTLE_ROOF == <<190, 50, 50>>
TOWER_COLOR == <<230, 220, 210>>
GRASS_GREEN == <<60, 180, 60>>
DARK_GREEN == <<30, 100, 30>>
WATER_BLUE == <<60, 120, 240>>
COBBLE == <<150, 145, 135>>
WOOD_BROWN == <<120, 80, 40>>
WINDOW_BLUE == <<100, 180, 255>>
FLAG_RED == <<220, 30, 40>>

\* the lists of ss joined in order
RECURSIVE Concat(_)
Concat(ss) == IF Len(ss) = 0 THEN <<>> ELSE Head(ss) \o Concat(Tail(ss))

\* n * 0.5
Half(n) == TruncDiv(n, 2)

\* lines 94-115: the ten triangles of a box, in append order
Box(cx, by, cz, w, h, d, top_col, front_col, side_col) ==
    LET hw == Half(w)
        hd == Half(d)
        x0 == cx - hw
        x1 == cx + hw
        y0 == by
        y1 == by + h
        z0 == cz - hd
        z1 == cz + hd
        v_bl_f == Vec(x0, y0, z0)
        v_br_f == Vec(x1, y0, z0)
        v_tl_f == Vec(x0, y1, z0)
        v_tr_f == Vec(x1, y1, z0)
        v_bl_b == Vec(x0, y0, z1)
        v_br_b == Vec(x1, y0, z1)
        v_tl_b == Vec(x0, y1, z1)
        v_tr_b == Vec(x1, y1, z1)
    IN  << Triangle(v_tl_f, v_tr_f, v_tr_b, top_col),
           Triangle(v_tl_f, v_tr_b, v_tl_b, top_col),
           Triangle(v_bl_f, v_br_f, v_tr_f, front_col),
           Triangle(v_bl_f, v_tr_f, v_tl_f, front_col),
           Triangle(v_br_b, v_bl_b, v_tl_b, front_col),
           Triangle(v_br_b, v_tl_b, v_tr_b, front_col),
           Triangle(v_bl_b, v_bl_f, v_tl_f, side_col),
           Triangle(v_bl_b, v_tl_f, v_tl_b, side_col),
           Triangle(v_br_f, v_br_b, v_tr_b, side_col),
           Triangle(v_br_f, v_tr_b, v_tr_f, side_col) >>

\* add_box with a bottom face
AddBoxClosed(t, cx, by, cz, w, h, d, top_col, front_col, side_col) ==
    t \o Box(cx, by, cz, w, h, d, top_col, front_col, side_col)
      \o << Triangle(Vec(cx - Half(w), by, cz - Half(d)), Vec(cx + Half(w), by, cz - Half(d)),
                     Vec(cx + Half(w), by, cz + Half(d)), side_col),
            Triangle(Vec(cx - Half(w), by, cz - Half(d)), Vec(cx + Half(w), by, cz + Half(d)),
                     Vec(cx - Half(w), by, cz + Half(d)), side_col) >>

\* add_box(tris, cx, by, cz, w, h, d, top_col, front_col, side_col), lines 93-115
AddBox(t, cx, by, cz, w, h, d, top_col, front_col, side_col) ==
    t \o Box(cx, by, cz, w, h, d, top_col, front_col, side_col)

\* math.cos(i * step) and math.sin(i * step) for step = 2 * pi / segments and
\* i = 0..segments, in thousandths, for the segment counts 1..14
RingCosTab ==
    << <<1000, 1000>>,
       <<1000, -1000, 1000>>,
       <<1000, -500, -500, 1000>>,
       <<1000, 0, -1000, 0, 1000>>,
       <<1000, 309, -809, -809, 309, 1000>>,
       <<1000, 500, -500, -1000, -500, 500, 1000>>,
       <<1000, 623, -223, -901, -901, -223, 623, 1000>>,
       <<1000, 707, 0, -707, -1000, -707, 0, 707, 1000>>,
       <<1000, 766, 174, -500, -940, -940, -500, 174, 766, 1000>>,
       <<1000, 809, 309, -309, -809, -1000, -809, -309, 309, 809, 1000>>,
       <<1000, 841, 415, -142, -655, -959, -959, -655, -142, 415, 841, 1000>>,
       <<1000, 866, 500, 0, -500, -866, -1000, -866, -500, 0, 500, 866, 1000>>,
       <<1000, 885, 568, 121, -355, -749, -971, -971, -749, -355, 121, 568, 885, 1000>>,
       <<1000, 901, 623, 223, -223, -623, -901, -1000, -901, -623, -223, 223, 623, 901, 1000>> >>

RingSinTab ==
    << <<0, 0>>,
       <<0, 0, 0>>,
       <<0, 866, -866, 0>>,
       <<0, 1000, 0, -1000, 0>>,
       <<0, 951, 588, -588, -951, 0>>,
       <<0, 866, 866, 0, -866, -866, 0>>,
       <<0, 782, 975, 434, -434, -975, -782, 0>>,
       <<0, 707, 1000, 707, 0, -707, -1000, -707, 0>>,
       <<0, 643, 985, 866, 342, -342, -866, -985, -643, 0>>,
       <<0, 588, 951, 951, 588, 0, -588, -951, -951, -588, 0>>,
       <<0, 541, 910, 990, 756, 282, -282, -756, -990, -910, -541, 0>>,
       <<0, 500, 866, 1000, 866, 500, 0, -500, -866, -1000, -866, -500, 0>>,
       <<0, 465, 823, 993, 935, 663, 239, -239, -663, -935, -993, -823, -465, 0>>,
       <<0, 434, 782, 975, 975, 782, 434, 0, -434, -782, -975, -975, -782, -434, 0>> >>

\* a builder that refuses every segment count below 3
StepRaisesBelowThree(segments) == segments < 3

\* lines 118 and 131: step = (2 * math.pi) / segments raises ZeroDivisionError
\* for the segment count 0
StepRaises(segments) == segments = 0

\* lines 120 and 133: cache[i] = (cos(i * step) * radius, sin(i * step) * radius)
\* for i in range(segments + 1), which is empty for a negative segment count
Cache(radius, segments) ==
    [i \in 0..segments |->
        <<TruncDiv(RingCosTab[segments][i + 1] * radius, TRIG),
          TruncDiv(RingSinTab[segments][i + 1] * radius, TRIG)>>]

\* lines 123-128: the three triangles of segment i of a cylinder
CylinderSegment(cx, by, cz, top_y, p0, p1, top_col, side_col) ==
    LET center_top == Vec(cx, top_y, cz)
        t0 == Vec(cx + p0[1], top_y, cz + p0[2])
        t1 == Vec(cx + p1[1], top_y, cz + p1[2])
        b0 == Vec(cx + p0[1], by, cz + p0[2])
        b1 == Vec(cx + p1[1], by, cz + p1[2])
    IN  << Triangle(center_top, t1, t0, top_col),
           Triangle(t0, t1, b1, side_col),
           Triangle(t0, b1, b0, side_col) >>

\* a cylinder closed at both ends: each segment also gets a bottom-cap triangle
AddCylinderCapped(t, cx, by, cz, radius, height, segments, top_col, side_col) ==
    LET cache == Cache(radius, segments)
    IN  t \o Concat([k \in 1..segments |->
                CylinderSegment(cx, by, cz, by + height, cache[k - 1], cache[k],
                                top_col, side_col)
                \o << Triangle(Vec(cx, by, cz),
                               Vec(cx + cache[k - 1][1], by, cz + cache[k - 1][2]),
                               Vec(cx + cache[k][1], by, cz + cache[k][2]),
                               top_col) >>])

\* add_cylinder(tris, cx, by, cz, radius, height, segments, top_col, side_col),
\* lines 117-128, for a segment count other than 0
AddCylinder(t, cx, by, cz, radius, height, segments, top_col, side_col) ==
    LET cache == Cache(radius, segments)
    IN  t \o Concat([k \in 1..segments |->
                CylinderSegment(cx, by, cz, by + height, cache[k - 1], cache[k],
                                top_col, side_col)])

\* add_cone(tris, cx, by, cz, radius, height, segments, color), lines 130-137,
\* for a segment count other than 0
AddCone(t, cx, by, cz, radius, height, segments, color) ==
    LET apex == Vec(cx, by + height, cz)
        cache == Cache(radius, segments)
    IN  t \o [k \in 1..segments |->
                Triangle(Vec(cx + cache[k - 1][1], by, cz + cache[k - 1][2]),
                         Vec(cx + cache[k][1], by, cz + cache[k][2]),
                         apex, color)]

\* add_flag(tris, cx, by, cz), lines 139-144
AddFlag(t, cx, by, cz) ==
    Append(AddBox(t, cx, by, cz, 300, 3500, 300, WHITE, WHITE, WHITE),
           Triangle(Vec(cx, by + 2800, cz + 200), Vec(cx + 2200, by + 2400, cz + 200),
                    Vec(cx, by + 2000, cz + 200), FLAG_RED))

\* add_battlements placing each merlon directly behind the previous one
AddBattlementsAdjoining(t, cx, by, cz, length, is_z_axis, col, count) ==
    LET merlon_w == TruncDiv(length, count * 2 - 1)
        h == 2200
        d == 1600
        start_offset == TruncDiv(0 - length, 2) + TruncDiv(merlon_w, 2)
        pos(i) == start_offset + i * merlon_w
    IN  t \o Concat([k \in 1..count |->
                IF is_z_axis
                THEN Box(cx, by, cz + pos(k - 1), d, h, merlon_w,
                         col, CASTLE_DARK, CASTLE_DARK)
                ELSE Box(cx + pos(k - 1), by, cz, merlon_w, h, d,
                         col, CASTLE_DARK, CASTLE_DARK)])

\* add_battlements(tris, cx, by, cz, length, is_z_axis, col, count), lines 146-155
AddBattlements(t, cx, by, cz, length, is_z_axis, col, count) ==
    LET merlon_w == TruncDiv(length, count * 2 - 1)
        h == 2200
        d == 1600
        start_offset == TruncDiv(0 - length, 2) + TruncDiv(merlon_w, 2)
        pos(i) == start_offset + i * merlon_w * 2
    IN  t \o Concat([k \in 1..count |->
                IF is_z_axis
                THEN Box(cx, by, cz + pos(k - 1), d, h, merlon_w,
                         col, CASTLE_DARK, CASTLE_DARK)
                ELSE Box(cx + pos(k - 1), by, cz, merlon_w, h, d,
                         col, CASTLE_DARK, CASTLE_DARK)])

\* lines 162-166: the six window boxes of a tower
TowerWindows(cx, by, cz, radius, height) ==
    Concat([k \in 1..6 |->
        LET i == k - 1
            wx == cx + TruncDiv(TruncDiv(RingCosTab[6][k] * radius, TRIG) * 85, PERCENT)
            wz == cz + TruncDiv(TruncDiv(RingSinTab[6][k] * radius, TRIG) * 85, PERCENT)
        IN  Box(wx, by + TruncDiv(height * 40, PERCENT) + i * 1800, wz, 1400, 1800, 1400,
                WINDOW_BLUE, WINDOW_BLUE, WINDOW_BLUE)])

\* add_peach_tower(tris, cx, by, cz, radius, height, roof_height, wall_color,
\* roof_color), lines 157-166
AddPeachTower(t, cx, by, cz, radius, height, roof_height, wall_color, roof_color) ==
    LET segs == 8
        wall == AddCylinder(t, cx, by, cz, radius, height, segs, wall_color, wall_color)
        roof == AddCone(wall, cx, by + height, cz, TruncDiv(radius * 125, PERCENT),
                        roof_height, segs, roof_color)
        flag == AddFlag(roof, cx, by + height + roof_height + 500, cz)
    IN  flag \o TowerWindows(cx, by, cz, radius, height)

\* src/ultramario4k1.18.26.py lines 222-227: the four window boxes of a tower
UMTowerWindows(cx, by, cz, radius, height) ==
    Concat([k \in 1..4 |->
        LET wx == cx + TruncDiv(TruncDiv(RingCosTab[4][k] * radius, TRIG) * 90, PERCENT)
            wz == cz + TruncDiv(TruncDiv(RingSinTab[4][k] * radius, TRIG) * 90, PERCENT)
        IN  Box(wx, by + TruncDiv(height * 60, PERCENT), wz, 1200, 2000, 1200,
                WINDOW_BLUE, WINDOW_BLUE, WINDOW_BLUE)])

\* add_peach_tower of src/ultramario4k1.18.26.py, lines 215-227; its add_box,
\* add_cylinder and add_cone (lines 127-200) are those of src/#####sm64.py
UMAddPeachTower(t, cx, by, cz, radius, height, roof_height, wall_color, roof_color) ==
    LET segs == 8
        wall == AddCylinder(t, cx, by, cz, radius, height, segs, wall_color, wall_color)
        roof == AddCone(wall, cx, by + height, cz, TruncDiv(radius * 120, PERCENT),
                        roof_height, segs, roof_color)
    IN  roof \o UMTowerWindows(cx, by, cz, radius, height)

----------------------------------------------------------------------------
(* Level, src/#####sm64.py lines 169-235 *)

\* the builder calls of Level.build as data
BoxCall(cx, by, cz, w, h, d, top_col, front_col, side_col) ==
    [op |-> "add_box", cx |-> cx, by |-> by, cz |-> cz, w |-> w, h |-> h, d |-> d,
     top_col |-> top_col, front_col |-> front_col, side_col |-> side_col]

CylinderCall(cx, by, cz, radius, height, segments, top_col, side_col) ==
    [op |-> "add_cylinder", cx |-> cx, by |-> by, cz |-> cz, radius |-> radius,
     height |-> height, segments |-> segments, top_col |-> top_col,
     side_col |-> side_col]

ConeCall(cx, by, cz, radius, height, segments, color) ==
    [op |-> "add_cone", cx |-> cx, by |-> by, cz |-> cz, radius |-> radius,
     height |-> height, segments |-> segments, color |-> color]

FlagCall(cx, by, cz) == [op |-> "add_flag", cx |-> cx, by |-> by, cz |-> cz]

BattlementsCall(cx, by, cz, length, is_z_axis, col, count) ==
    [op |-> "add_battlements", cx |-> cx, by |-> by, cz |-> cz, length |-> length,
     is_z_axis |-> is_z_axis, col |-> col, count |-> count]

TowerCall(cx, by, cz, radius, height, roof_height, wall_color, roof_color) ==
    [op |-> "add_peach_tower", cx |-> cx, by |-> by, cz |-> cz, radius |-> radius,
     height |-> height, roof_height |-> roof_height, wall_color |-> wall_color,
     roof_color |-> roof_color]

\* the list t after the builder call c
ApplyCall(t, c) ==
    CASE c.op = "add_box" ->
            AddBox(t, c.cx, c.by, c.cz, c.w, c.h, c.d, c.top_col, c.front_col, c.side_col)
      [] c.op = "add_cylinder" ->
            AddCylinder(t, c.cx, c.by, c.cz, c.radius, c.height, c.segments,
                        c.top_col, c.side_col)
      [] c.op = "add_cone" ->
            AddCone(t, c.cx, c.by, c.cz, c.radius, c.height, c.segments, c.color)
      [] c.op = "add_flag" -> AddFlag(t, c.cx, c.by, c.cz)
      [] c.op = "add_battlements" ->
            AddBattlements(t, c.cx, c.by, c.cz, c.length, c.is_z_axis, c.col, c.count)
      [] c.op = "add_peach_tower" ->
            AddPeachTower(t, c.cx, c.by, c.cz, c.radius, c.height, c.roof_height,
                          c.wall_color, c.roof_color)

\* lines 197, 212
WALL_H == 9200
C_Z == 21000

\* lines 208, 225, 229, 234
CornerTowers == << <<-38000, -16000>>, <<38000, -16000>>, <<-38000, 52000>>, <<38000, 52000>> >>
InnerTowers ==
    << <<-23500, C_Z - 15500>>, <<23500, C_Z - 15500>>,
       <<-23500, C_Z + 15500>>, <<23500, C_Z + 15500>> >>
Trees ==
    << <<-21000, 9000>>, <<21000, 9000>>, <<-26000, -7000>>, <<26000, -7000>>,
       <<-48000, 30000>>, <<48000, 30000>> >>
Platforms == << <<0, 13500, -3500>>, <<17000, 9500, -12000>>, <<-17000, 9500, -12000>> >>

\* lines 177-235: the builder calls of Level.build, in order
LevelCalls ==
    << BoxCall(0, -1200, 0, 180000, 1200, 180000, GRASS_GREEN, DARK_GREEN, DARK_GREEN),
       BoxCall(0, -1100, 12000, 18000, 300, 92000, COBBLE, COBBLE, COBBLE),
       CylinderCall(0, -1100, 8000, 28000, 300, 14, COBBLE, COBBLE),
       BoxCall(0, -900, -14000, 82000, 900, 18000, WATER_BLUE, WATER_BLUE, WATER_BLUE),
       BoxCall(-41000, -900, 18000, 4000, 900, 72000, WATER_BLUE, WATER_BLUE, WATER_BLUE),
       BoxCall(41000, -900, 18000, 4000, 900, 72000, WATER_BLUE, WATER_BLUE, WATER_BLUE),
       BoxCall(0, -800, -8000, 11000, 600, 18000, WOOD_BROWN, WOOD_BROWN, WOOD_BROWN),
       BoxCall(-4800, -300, -8000, 800, 1200, 16000, WOOD_BROWN, WOOD_BROWN, WOOD_BROWN),
       BoxCall(4800, -300, -8000, 800, 1200, 16000, WOOD_BROWN, WOOD_BROWN, WOOD_BROWN) >>
    \o [k \in 1..6 |->
          BoxCall(0, -800 + (k - 1) * 500, -12000 - (k - 1) * 1200,
                  9200 - (k - 1) * 800, 500, 4000,
                  CASTLE_STONE, CASTLE_STONE, CASTLE_DARK)]
    \o << BoxCall(-31000, 0, -17000, 26000, WALL_H, 3800,
                  CASTLE_STONE, CASTLE_STONE, CASTLE_DARK),
          BoxCall(31000, 0, -17000, 26000, WALL_H, 3800,
                  CASTLE_STONE, CASTLE_STONE, CASTLE_DARK),
          BoxCall(-42000, 0, 16000, 3800, WALL_H, 72000,
                  CASTLE_STONE, CASTLE_DARK, CASTLE_STONE),
          BoxCall(42000, 0, 16000, 3800, WALL_H, 72000,
                  CASTLE_STONE, CASTLE_DARK, CASTLE_STONE),
          BattlementsCall(-31000, WALL_H, -17000, 24000, FALSE, CASTLE_STONE, 5),
          BattlementsCall(31000, WALL_H, -17000, 24000, FALSE, CASTLE_STONE, 5),
          BattlementsCall(-42000, WALL_H, 16000, 70000, TRUE, CASTLE_STONE, 9),
          BattlementsCall(42000, WALL_H, 16000, 70000, TRUE, CASTLE_STONE, 9) >>
    \o [k \in 1..4 |->
          TowerCall(CornerTowers[k][1], 0, CornerTowers[k][2], 5800, 10800, 6800,
                    TOWER_COLOR, CASTLE_ROOF)]
    \o << BoxCall(0, 0, C_Z, 52000, 14500, 34000,
                  CASTLE_STONE, CASTLE_STONE, CASTLE_STONE),
          BoxCall(-24000, 0, C_Z - 8000, 12000, 9500, 18000,
                  CASTLE_STONE, CASTLE_STONE, CASTLE_DARK),
          BoxCall(24000, 0, C_Z - 8000, 12000, 9500, 18000,
                  CASTLE_STONE, CASTLE_STONE, CASTLE_DARK),
          CylinderCall(0, 0, C_Z + 2500, 9200, 31000, 14, TOWER_COLOR, TOWER_COLOR),
          ConeCall(0, 31000, C_Z + 2500, 10800, 13500, 14, CASTLE_ROOF),
          FlagCall(0, 31000 + 13500 + 800, C_Z + 2500),
          BoxCall(0, 16500, C_Z - 16500, 7800, 9200, 1400,
                  <<240, 180, 220>>, WINDOW_BLUE, WINDOW_BLUE) >>
    \o [k \in 1..4 |->
          TowerCall(InnerTowers[k][1], 0, InnerTowers[k][2], 6200, 19500, 8500,
                    TOWER_COLOR, CASTLE_ROOF)]
    \o [k \in 1..12 |->
          LET tree == Trees[(k + 1) \div 2]
          IN  IF k % 2 = 1
              THEN CylinderCall(tree[1], 0, tree[2], 1200, 3400, 4, WOOD_BROWN, WOOD_BROWN)
              ELSE ConeCall(tree[1], 3400, tree[2], 4600, 6800, 4, DARK_GREEN)]
    \o [k \in 1..3 |->
          BoxCall(Platforms[k][1], Platforms[k][2], Platforms[k][3], 4200, 4200, 4200,
                  YELLOW, GOLD, GOLD)]

\* the record of a builder call c made on the list before, and what it raised
Called(c, before, raised) ==
    [op |-> c.op, args |-> c, before |-> before, raised |-> raised]

\* Level objects constructed one after the other
MaxLevels == 2

\* nothing constructed yet
LevelInit ==
    /\ tris = <<>>
    /\ call = NoCall
    /\ step = 0
    /\ levels = <<>>
    /\ pc = "new"
    /\ player = NewPlayer(0, 2000, -28000)
    /\ cam = [pos |-> Vec(0, 11000, -65000), yaw |-> 0]
    /\ keys = NoKeys
    /\ frame = 0
    /\ moves = 0
    /\ jumps = 0
    /\ glide = 0
    /\ snap = [player |-> player, cam |-> cam, keys |-> keys]
    /\ tri = NoTri
    /\ view = NoView
    /\ res = None
    /\ NoDraw /\ NoMenu

\* a constructor that goes on with the list of the Level constructed before
LevelNewSharedList ==
    /\ pc = "new"
    /\ Len(levels) < MaxLevels
    /\ tris' = tris
    /\ step' = 0
    /\ pc' = "build"
    /\ UNCHANGED <<player, keys, cam, frame, moves, jumps, glide, snap, tri, view, res,
                   call, levels, drawVars, menuVars>>

\* lines 170-171: Level() starts with self.triangles = []
LevelNew ==
    /\ pc = "new"
    /\ Len(levels) < MaxLevels
    /\ tris' = <<>>
    /\ step' = 0
    /\ pc' = "build"
    /\ UNCHANGED <<player, keys, cam, frame, moves, jumps, glide, snap, tri, view, res,
                   call, levels, drawVars, menuVars>>

\* lines 175-235: the next builder call of build on t = self.triangles
BuildStep ==
    /\ pc = "build"
    /\ step < Len(LevelCalls)
    /\ tris' = ApplyCall(tris, LevelCalls[step + 1])
    /\ step' = step + 1
    /\ UNCHANGED <<player, keys, cam, pc, frame, moves, jumps, glide, snap, tri, view,
                   res, call, levels, drawVars, menuVars>>

\* line 172: build returns and the constructor with it
LevelDone ==
    /\ pc = "build"
    /\ step = Len(LevelCalls)
    /\ levels' = Append(levels, tris)
    /\ pc' = "new"
    /\ UNCHANGED <<player, keys, cam, frame, moves, jumps, glide, snap, tri, view, res,
                   tris, call, step, drawVars, menuVars>>

LevelNext == LevelNew \/ BuildStep \/ LevelDone

LevelSpec == LevelInit /\ [][LevelNext]_vars

----------------------------------------------------------------------------
(* The mesh builders called on chosen arguments *)

\* builder calls made on one list
MaxCalls == 2
\* the largest segment count handed to add_cylinder and add_cone
MaxSegments == 5

\* segment counts: negative, zero, below three, and regular ones
SegmentChoices == -2..MaxSegments

\* a list that is empty, or holds a triangle appended earlier
BuildInit ==
    /\ tris \in { <<>>, <<Triangle(Vec(0, 0, 0), Vec(100, 0, 0), Vec(0, 100, 0), WHITE)>> }
    /\ call = NoCall
    /\ step = 0
    /\ levels = <<>>
    /\ pc = "build"
    /\ player = NewPlayer(0, 2000, -28000)
    /\ cam = [pos |-> Vec(0, 11000, -65000), yaw |-> 0]
    /\ keys = NoKeys
    /\ frame = 0
    /\ moves = 0
    /\ jumps = 0
    /\ glide = 0
    /\ snap = [player |-> player, cam |-> cam, keys |-> keys]
    /\ tri = NoTri
    /\ view = NoView
    /\ res = None
    /\ NoDraw /\ NoMenu

\* another call can be made: the list is not full and no exception has ended the
\* construction
CanCall == pc = "build" /\ step < MaxCalls /\ call.raised = "none"

\* a call of add_box (lines 93-115)
CallAddBox ==
    /\ CanCall
    /\ \E cx \in {0, -31000}, by \in {-1200, 0}, h \in {300, 4200} :
         LET c == BoxCall(cx, by, -17000, 4200, h, 800, CASTLE_STONE, GOLD, CASTLE_DARK)
         IN  /\ tris' = AddBox(tris, c.cx, c.by, c.cz, c.w, c.h, c.d,
                               c.top_col, c.front_col, c.side_col)
             /\ call' = Called(c, tris, "none")
    /\ step' = step + 1
    /\ UNCHANGED <<player, keys, cam, pc, frame, moves, jumps, glide, snap, tri, view,
                   res, levels, drawVars, menuVars>>

\* a call of add_cylinder (lines 117-128): line 118 raises for no segments,
\* before anything is appended
CallAddCylinder ==
    /\ CanCall
    /\ \E segments \in SegmentChoices, height \in {300, 3400} :
         LET c == CylinderCall(0, -1100, 8000, 1200, height, segments, COBBLE, WOOD_BROWN)
         IN  IF StepRaises(segments)
             THEN /\ tris' = tris
                  /\ call' = Called(c, tris, "ZeroDivisionError")
             ELSE /\ tris' = AddCylinder(tris, c.cx, c.by, c.cz, c.radius, c.height,
                                         c.segments, c.top_col, c.side_col)
                  /\ call' = Called(c, tris, "none")
    /\ step' = step + 1
    /\ UNCHANGED <<player, keys, cam, pc, frame, moves, jumps, glide, snap, tri, view,
                   res, levels, drawVars, menuVars>>

\* a call of add_cone (lines 130-137): line 131 raises for no segments
CallAddCone ==
    /\ CanCall
    /\ \E segments \in SegmentChoices :
         LET c == ConeCall(21000, 3400, 9000, 4600, 6800, segments, DARK_GREEN)
         IN  IF StepRaises(segments)
             THEN /\ tris' = tris
                  /\ call' = Called(c, tris, "ZeroDivisionError")
             ELSE /\ tris' = AddCone(tris, c.cx, c.by, c.cz, c.radius, c.height,
                                     c.segments, c.color)
                  /\ call' = Called(c, tris, "none")
    /\ step' = step + 1
    /\ UNCHANGED <<player, keys, cam, pc, frame, moves, jumps, glide, snap, tri, view,
                   res, levels, drawVars, menuVars>>

\* total span and merlon count of the rows built: the two rows of Level.build
\* (lines 202-205), a single merlon, and spans that the merlon count divides
BattlementChoices ==
    { <<24000, 5>>, <<70000, 9>>, <<18000, 1>>, <<18000, 3>>, <<9000, 2>> }

\* a call of add_battlements (lines 146-155)
CallAddBattlements ==
    /\ CanCall
    /\ \E lc \in BattlementChoices, is_z_axis \in BOOLEAN :
         LET c == BattlementsCall(-31000, WALL_H, -17000, lc[1], is_z_axis,
                                  CASTLE_STONE, lc[2])
         IN  /\ tris' = AddBattlements(tris, c.cx, c.by, c.cz, c.length, c.is_z_axis,
                                       c.col, c.count)
             /\ call' = Called(c, tris, "none")
    /\ step' = step + 1
    /\ UNCHANGED <<player, keys, cam, pc, frame, moves, jumps, glide, snap, tri, view,
                   res, levels, drawVars, menuVars>>

\* a call of add_peach_tower (lines 157-166) with the arguments of a corner tower
\* or of an inner tower (lines 209, 226)
CallAddPeachTower ==
    /\ CanCall
    /\ \E rh \in { <<5800, 10800, 6800>>, <<6200, 19500, 8500>> } :
         LET c == TowerCall(-38000, 0, -16000, rh[1], rh[2], rh[3],
                            TOWER_COLOR, CASTLE_ROOF)
         IN  /\ tris' = AddPeachTower(tris, c.cx, c.by, c.cz, c.radius, c.height,
                                      c.roof_height, c.wall_color, c.roof_color)
             /\ call' = Called(c, tris, "none")
    /\ step' = step + 1
    /\ UNCHANGED <<player, keys, cam, pc, frame, moves, jumps, glide, snap, tri, view,
                   res, levels, drawVars, menuVars>>

\* a call of add_peach_tower of src/ultramario4k1.18.26.py (lines 215-227) with
\* the arguments of its towers (lines 265, 280)
CallUMAddPeachTower ==
    /\ CanCall
    /\ \E rh \in { <<5500, 10000, 6000>>, <<6000, 18000, 8000>> } :
         LET c == TowerCall(-38000, 0, -16000, rh[1], rh[2], rh[3],
                            TOWER_COLOR, CASTLE_ROOF)
         IN  /\ tris' = UMAddPeachTower(tris, c.cx, c.by, c.cz, c.radius, c.height,
                                        c.roof_height, c.wall_color, c.roof_color)
             /\ call' = [Called(c, tris, "none") EXCEPT !.op = "um_add_peach_tower"]
    /\ step' = step + 1
    /\ UNCHANGED <<player, keys, cam, pc, frame, moves, jumps, glide, snap, tri, view,
                   res, levels, drawVars, menuVars>>

BuildNext ==
    \/ CallAddBox \/ CallAddCylinder \/ CallAddCone
    \/ CallAddBattlements \/ CallAddPeachTower \/ CallUMAddPeachTower

BuildSpec == BuildInit /\ [][BuildNext]_vars

----------------------------------------------------------------------------
(* The variant src/geminism64.py: a menu in front of the game, a character   *)
(* with a speed cap, a checkerboard level                                    *)

\* lines 15-16, 18-19 of src/geminism64.py
GREEN == <<34, 139, 34>>
GRAY == <<169, 169, 169>>
DARK_GRAY == <<100, 100, 100>>

\* lines 22-27
GEM_GRAVITY == 80
GEM_JUMP_FORCE == 1500
GEM_MOVE_SPEED == 50
GEM_MAX_SPEED == 800
GEM_FRICTION == 85
GEM_TURN_SPEED == 8

\* math.sin and math.cos at the multiples k * 0.08 rad, k = 0..39, in thousandths
GemSinTab ==
    << 0, 80, 159, 238, 315, 389, 462, 531, 597, 659, 717, 771,
       819, 862, 900, 932, 958, 978, 991, 999, 1000, 994, 982, 964,
       940, 909, 873, 831, 784, 732, 675, 614, 549, 481, 409, 335,
       259, 181, 101, 22 >>

GemCosTab ==
    << 1000, 997, 987, 971, 949, 921, 887, 847, 802, 752, 697, 637,
       574, 506, 436, 362, 287, 209, 130, 51, -29, -109, -188, -266,
       -342, -416, -487, -556, -620, -681, -737, -789, -836, -877, -912, -942,
       -966, -984, -995, -1000 >>

GemSin(yaw) ==
    LET k == TruncDiv(yaw, GEM_TURN_SPEED)
    IN  IF k < 0 THEN 0 - GemSinTab[1 - k] ELSE GemSinTab[1 + k]

GemCos(yaw) == GemCosTab[1 + Abs(TruncDiv(yaw, GEM_TURN_SPEED))]

\* math.sqrt, rounded down to the grid
ISqrt(n) == CHOOSE r \in 0..(4 * GEM_MAX_SPEED) : r * r <= n /\ (r + 1) * (r + 1) > n

\* Player.__init__, lines 90-96
GemNewPlayer(x, y, z) ==
    [pos |-> Vec(x, y, z), vel |-> Vec(0, 0, 0), yaw |-> 0, grounded |-> FALSE]

\* line 114
GemApplyTurn(p, k) == [p EXCEPT !.yaw = @ + Turning(k) * GEM_TURN_SPEED]

\* lines 117-121: (0, 0, forward * MOVE_SPEED) rotated by -yaw is
\* (forward * MOVE_SPEED * sin(yaw), 0, forward * MOVE_SPEED * cos(yaw))
GemApplyMove(p, k) ==
    [p EXCEPT
        !.vel.x = @ + TruncDiv(Forward(k) * GEM_MOVE_SPEED * GemSin(p.yaw), TRIG),
        !.vel.z = @ + TruncDiv(Forward(k) * GEM_MOVE_SPEED * GemCos(p.yaw), TRIG)]

\* lines 124-125
GemApplyFriction(p) ==
    [p EXCEPT !.vel.x = TruncDiv(@ * GEM_FRICTION, PERCENT),
              !.vel.z = TruncDiv(@ * GEM_FRICTION, PERCENT)]

\* lines 128-132
GemSpeedCap(p) ==
    LET square == p.vel.x * p.vel.x + p.vel.z * p.vel.z
    IN  IF square > GEM_MAX_SPEED * GEM_MAX_SPEED
        THEN [p EXCEPT !.vel.x = TruncDiv(@ * GEM_MAX_SPEED, ISqrt(square)),
                       !.vel.z = TruncDiv(@ * GEM_MAX_SPEED, ISqrt(square))]
        ELSE p

\* lines 135-137
GemApplyJump(p, k) ==
    IF k.space /\ p.grounded
    THEN [p EXCEPT !.vel.y = GEM_JUMP_FORCE, !.grounded = FALSE]
    ELSE p

\* line 139
GemApplyGravity(p) == [p EXCEPT !.vel.y = @ - GEM_GRAVITY]

\* Player.update, lines 98-151; lines 142-151 are Integrate and FloorCollide
GemPlayerUpdate(p, k) ==
    FloorCollide(Integrate(GemApplyGravity(GemApplyJump(
        GemSpeedCap(GemApplyFriction(GemApplyMove(GemApplyTurn(p, k), k))), k))))

\* lines 281-282, 307
GEM_CAM_DIST == 40000
GEM_CAM_HEIGHT == 15000
GEM_LERP_SPEED == 10

\* Game.update_camera, lines 298-315
GemUpdateCamera(c, p) ==
    LET t == Vec(p.pos.x - TruncDiv(GemSin(p.yaw) * GEM_CAM_DIST, TRIG),
                 p.pos.y + GEM_CAM_HEIGHT,
                 p.pos.z - TruncDiv(GemCos(p.yaw) * GEM_CAM_DIST, TRIG))
        np == Vec(c.pos.x + TruncDiv((t.x - c.pos.x) * GEM_LERP_SPEED, PERCENT),
                  c.pos.y + TruncDiv((t.y - c.pos.y) * GEM_LERP_SPEED, PERCENT),
                  c.pos.z + TruncDiv((t.z - c.pos.z) * GEM_LERP_SPEED, PERCENT))
    IN  [pos |-> np, yaw |-> Atan2(p.pos.x - np.x, p.pos.z - np.z)]

\* lines 208-212
GEM_TILE == 10000
GEM_COLS == 8
GEM_ROWS == 8

\* Level.generate_ground, lines 206-228: two triangles per tile, row by row
GemGround ==
    Concat([n \in 1..(GEM_ROWS * GEM_COLS) |->
        LET r == (n - 1) \div GEM_COLS
            c == (n - 1) % GEM_COLS
            x == TruncDiv(0 - GEM_COLS * GEM_TILE, 2) + c * GEM_TILE
            z == TruncDiv(0 - GEM_ROWS * GEM_TILE, 2) + r * GEM_TILE
            v1 == Vec(x, 0, z)
            v2 == Vec(x + GEM_TILE, 0, z)
            v3 == Vec(x + GEM_TILE, 0, z + GEM_TILE)
            v4 == Vec(x, 0, z + GEM_TILE)
            color == IF (r + c) % 2 = 0 THEN GREEN ELSE DARK_GRAY
        IN  << Triangle(v1, v2, v3, color), Triangle(v1, v3, v4, color) >>])

\* add_cube of Level.generate_blocks, lines 232-255
GemCube(cx, cy, cz, s, color) ==
    LET v1 == Vec(cx - s, cy + s, cz - s)
        v2 == Vec(cx + s, cy + s, cz - s)
        v3 == Vec(cx + s, cy - s, cz - s)
        v4 == Vec(cx - s, cy - s, cz - s)
        v5 == Vec(cx - s, cy + s, cz + s)
        v6 == Vec(cx + s, cy + s, cz + s)
        v7 == Vec(cx + s, cy - s, cz + s)
        v8 == Vec(cx - s, cy - s, cz + s)
    IN  << Triangle(v4, v5, v1, color),
           Triangle(v5, v6, v2, color),
           Triangle(v5, v2, v1, color),
           Triangle(v1, v2, v3, color),
           Triangle(v1, v3, v4, color),
           Triangle(v2, v6, v7, color),
           Triangle(v2, v7, v3, color),
           Triangle(v5, v4, v8, color),
           Triangle(v5, v8, v7, color) >>

\* Level(), lines 200-259: the list after generate_ground and generate_blocks
GemLevel ==
    GemGround \o GemCube(10000, 2000, 10000, 2000, YELLOW)
              \o GemCube(-15000, 4000, 15000, 4000, GRAY)

\* Level objects the Game constructs at most
MaxBuilds == 3

\* the events pygame.event.get() may deliver in one frame: none, or one key
\* press or the window's close button
GemEvents ==
    {"none", "ESCAPE", "QUIT"}
        \cup (IF state = "MENU" /\ builds >= MaxBuilds THEN {} ELSE {"RETURN"})

\* Game.init_gameplay, lines 275-282: the player, level and camera it assigns
GemPlayerStart == GemNewPlayer(0, 5000, 0)
GemCamStart == [pos |-> Vec(0, 10000, -30000), yaw |-> 0]

\* Game.__init__, lines 264-273: state = "MENU", then init_gameplay()
GemInit ==
    /\ state = "MENU"
    /\ player = GemPlayerStart
    /\ level = GemLevel
    /\ cam = GemCamStart
    /\ builds = 1
    /\ keys = NoKeys
    /\ pc = "input"
    /\ frame = 0
    /\ moves = 0
    /\ jumps = 0
    /\ glide = 0
    /\ snap = [player |-> player, cam |-> cam, keys |-> keys]
    /\ tri = NoTri
    /\ view = NoView
    /\ res = None
    /\ mesh = <<>> /\ screen_tris = <<>> /\ polygons = <<>>
    /\ NoBuild /\ NoClock

\* Game.handle_input, lines 284-296, for the event e; RETURN in the menu starts
\* the game and runs init_gameplay, which constructs another Level
GemHandleInput ==
    /\ pc = "input"
    /\ \E e \in GemEvents :
        /\ pc' = IF e = "QUIT" THEN "exit" ELSE "frame"
        /\ IF e = "RETURN" /\ state = "MENU"
           THEN /\ state' = "PLAY"
                /\ player' = GemPlayerStart
                /\ level' = GemLevel
                /\ cam' = GemCamStart
                /\ builds' = builds + 1
           ELSE /\ state' = IF e = "ESCAPE" /\ state = "PLAY" THEN "MENU" ELSE state
                /\ UNCHANGED <<player, level, cam, builds>>
    /\ snap' = Snapshot
    /\ UNCHANGED <<keys, frame, moves, jumps, glide, tri, view, res,
                   mesh, screen_tris, polygons, buildVars, ticks, intro_start_time, event>>

\* Game.run, lines 412-413 and 423-424: a frame of the menu; draw_menu reads the
\* clock and writes the screen only
GemMenuFrame ==
    /\ pc = "frame"
    /\ state = "MENU"
    /\ pc' = "input"
    /\ snap' = Snapshot
    /\ UNCHANGED <<player, keys, cam, frame, moves, jumps, glide, tri, view, res,
                   drawVars, buildVars, menuVars>>

\* Game.run, lines 414-424: a frame of the game: Player.update, update_camera,
\* then draw_game, which reads level.triangles and writes the screen only
GemPlayFrame ==
    /\ pc = "frame"
    /\ state = "PLAY"
    /\ frame < MaxFrames
    /\ \E k \in KeyChoices : TickTo(GemPlayerUpdate(player, k), k)
    /\ cam' = GemUpdateCamera(cam, player')
    /\ frame' = frame + 1
    /\ pc' = "input"
    /\ UNCHANGED <<tri, view, res, drawVars, buildVars, menuVars>>

GemNext == GemHandleInput \/ GemMenuFrame \/ GemPlayFrame

GemSpec == GemInit /\ [][GemNext]_vars

----------------------------------------------------------------------------
(* Player.get_mesh_tris, src/#####sm64.py lines 282-355 *)

SKIN_COLOR == <<255, 200, 170>>
HAIR_COLOR == <<70, 40, 10>>

\* math.sin and math.cos at the walk-cycle phases k * 0.15 rad, k = 0..21, in
\* thousandths (the phase grows by 0.3 or 0.45 per step)
WalkSinTab ==
    << 0, 149, 296, 435, 565, 682, 783, 867, 932, 976, 997,
       997, 974, 929, 863, 778, 675, 558, 427, 287, 141, -8 >>

WalkCosTab ==
    << 1000, 989, 955, 900, 825, 732, 622, 498, 362, 219, 71,
       -79, -227, -370, -505, -628, -737, -830, -904, -958, -990, -1000 >>

\* lines 288-289: math.sin(self.walk_cycle) * 4 and math.cos(self.walk_cycle) * 4
LegSwing(p) == TruncDiv(WalkSinTab[1 + p.walk_cycle \div 15] * 400, TRIG)
ArmSwing(p) == TruncDiv(WalkCosTab[1 + p.walk_cycle \div 15] * 400, TRIG)

\* lines 301-305: a local vertex turned about the Y axis and moved to the character
PartVertex(p, vx, vy, vz) ==
    Vec(p.pos.x + RotX(vx, vz, Cos(p.yaw), 0 - Sin(p.yaw)),
        p.pos.y + vy,
        p.pos.z + RotZ(vx, vz, Cos(p.yaw), 0 - Sin(p.yaw)))

\* make_part, lines 292-323: the ten triangles of one box of the character
MakePart(p, w, h, d, col, ox, oy, oz) ==
    LET hw == Half(w)
        hd == Half(d)
        v0 == PartVertex(p, ox - hw, oy, oz - hd)
        v1 == PartVertex(p, ox + hw, oy, oz - hd)
        v2 == PartVertex(p, ox + hw, oy + h, oz - hd)
        v3 == PartVertex(p, ox - hw, oy + h, oz - hd)
        v4 == PartVertex(p, ox - hw, oy, oz + hd)
        v5 == PartVertex(p, ox + hw, oy, oz + hd)
        v6 == PartVertex(p, ox + hw, oy + h, oz + hd)
        v7 == PartVertex(p, ox - hw, oy + h, oz + hd)
    IN  << Triangle(v2, v6, v5, col), Triangle(v2, v5, v1, col),
           Triangle(v0, v1, v2, col), Triangle(v0, v2, v3, col),
           Triangle(v5, v4, v7, col), Triangle(v5, v7, v6, col),
           Triangle(v4, v0, v3, col), Triangle(v4, v3, v7, col),
           Triangle(v1, v5, v6, col), Triangle(v1, v6, v2, col) >>

\* lines 282-355: the fifteen parts, in call order
GetMeshTris(p) ==
    LET leg == LegSwing(p)
        arm == ArmSwing(p)
    IN  Concat(<<
          MakePart(p, 700, 500, 800, WOOD_BROWN, -400, 0, leg),
          MakePart(p, 700, 500, 800, WOOD_BROWN, 400, 0, 0 - leg),
          MakePart(p, 600, 800, 600, BLUE, -400, 500, Half(leg)),
          MakePart(p, 600, 800, 600, BLUE, 400, 500, Half(0 - leg)),
          MakePart(p, 1400, 600, 800, BLUE, 0, 1200, 0),
          MakePart(p, 1300, 1100, 700, RED, 0, 1800, 0),
          MakePart(p, 400, 1000, 400, RED, -900, 1800, 0 - arm),
          MakePart(p, 400, 1000, 400, RED, 900, 1800, arm),
          MakePart(p, 500, 500, 500, WHITE, -900, 1400, 0 - arm - 100),
          MakePart(p, 500, 500, 500, WHITE, 900, 1400, arm - 100),
          MakePart(p, 1000, 900, 900, SKIN_COLOR, 0, 2900, 0),
          MakePart(p, 300, 300, 300, SKIN_COLOR, 0, 3100, -500),
          MakePart(p, 1100, 400, 1000, HAIR_COLOR, 0, 3300, 100),
          MakePart(p, 1200, 300, 1100, RED, 0, 3600, 0),
          MakePart(p, 1200, 200, 400, RED, 0, 3600, -600) >>)

----------------------------------------------------------------------------
(* Game.run, src/#####sm64.py lines 432-444: the whole frame, character step, *)
(* camera step and draw                                                        *)

\* the leading triangles of Level.triangles that are handed to Game.draw
MaxSceneTris == 10

\* the scene of the explored frames: the ground slab and the path (lines 177-178)
FrameLevel ==
    SubSeq(ApplyCall(ApplyCall(<<>>, LevelCalls[1]), LevelCalls[2]), 1, MaxSceneTris)

\* Game.__init__, lines 359-374
FrameInit ==
    /\ player = NewPlayer(0, 2000, -28000)
    /\ cam = [pos |-> Vec(0, 11000, -65000), yaw |-> 0]
    /\ level = FrameLevel
    /\ mesh = <<>>
    /\ screen_tris = <<>>
    /\ polygons = <<>>
    /\ keys = NoKeys
    /\ pc = "update"
    /\ frame = 0
    /\ moves = 0
    /\ jumps = 0
    /\ glide = 0
    /\ snap = [player |-> player, cam |-> cam, keys |-> keys]
    /\ tri = NoTri
    /\ view = NoView
    /\ res = None
    /\ NoBuild /\ NoMenu

\* lines 440-441: the character step of the frame, under an environment that
\* walks forward while turning left, or jumps, or does nothing
FrameUpdate ==
    /\ pc = "update"
    /\ frame < MaxFrames
    /\ \E k \in {c \in KeyChoices : ~c.shift /\ ~c.down /\ ~c.right /\ (c.up <=> c.left)} :
           Tick(k)
    /\ frame' = frame + 1
    /\ pc' = "camera"
    /\ UNCHANGED <<cam, tri, view, res, drawVars, buildVars, menuVars>>

\* the camera step following the character as it was before this frame's update
FrameCameraStale ==
    /\ pc = "camera"
    /\ cam' = UpdateCamera(cam, snap.player)
    /\ pc' = "draw"
    /\ UNCHANGED <<player, keys, frame, moves, jumps, glide, snap, tri, view, res,
                   drawVars, buildVars, menuVars>>

\* line 442: self.update_camera()
FrameCamera ==
    /\ pc = "camera"
    /\ cam' = UpdateCamera(cam, player)
    /\ pc' = "draw"
    /\ UNCHANGED <<player, keys, frame, moves, jumps, glide, snap, tri, view, res,
                   drawVars, buildVars, menuVars>>

\* the shaded polygons of a sorted list, in list order (lines 416-422)
Polygons(ts) == [i \in 1..Len(ts) |-> Polygon(ts[i])]

\* Game.draw projecting from the camera pose of the start of the frame
FrameDrawStale ==
    /\ pc = "draw"
    /\ mesh' = GetMeshTris(player)
    /\ view' = [cam |-> snap.cam.pos, yaw |-> snap.cam.yaw]
    /\ screen_tris' = SortByDepth(Survivors(level \o mesh', view'))
    /\ polygons' = Polygons(screen_tris')
    /\ pc' = "update"
    /\ UNCHANGED <<player, keys, cam, frame, moves, jumps, glide, snap, tri, res,
                   level, buildVars, menuVars>>

\* lines 443-444: self.draw(), lines 389-430, and the flip
FrameDraw ==
    /\ pc = "draw"
    /\ mesh' = GetMeshTris(player)
    /\ view' = [cam |-> cam.pos, yaw |-> cam.yaw]
    /\ screen_tris' = SortByDepth(Survivors(level \o mesh', view'))
    /\ polygons' = Polygons(screen_tris')
    /\ pc' = "update"
    /\ UNCHANGED <<player, keys, cam, frame, moves, jumps, glide, snap, tri, res,
                   level, buildVars, menuVars>>

FrameNext == FrameUpdate \/ FrameCamera \/ FrameDraw

FrameSpec == FrameInit /\ [][FrameNext]_vars

----------------------------------------------------------------------------
(* Claims about the character controller.  After a character step, snap.player *)
(* is the character at the start of that step and keys is the step's input.    *)

\* a character step has run: its input and its start state are recorded
Stepped == snap.player # player \/ snap.keys # keys

\* the last step started grounded and at rest on the floor, with jump asserted
JumpedFromRest ==
    /\ snap.player.grounded /\ snap.player.pos.y = 0 /\ snap.player.vel.y = 0
    /\ keys.space

\* C1, as stated: a step that starts grounded and at rest with the jump input
\* asserted ends with vel.y equal to JUMP_FORCE and grounded false
C1_Original ==
    JumpedFromRest => player.vel.y = JUMP_FORCE /\ ~player.grounded

\* C1, amended: such a step ends with vel.y and pos.y equal to JUMP_FORCE - GRAVITY
\* (gravity is applied in the jump step itself) and grounded false
C1_JumpStep ==
    JumpedFromRest =>
        /\ player.vel.y = JUMP_FORCE - GRAVITY
        /\ player.pos.y = JUMP_FORCE - GRAVITY
        /\ ~player.grounded

C1_Witness == JumpedFromRest /\ ~player.grounded /\ jumps = 1

Landed == player.grounded /\ player.vel.y = 0 /\ player.pos.y = 0

\* C2: whenever the character is airborne (after a jump, or after the spawn), it
\* eventually is grounded on the floor with no vertical velocity
C2_Lands == (~player.grounded) ~> Landed

C2_Witness == Landed /\ jumps = 1 /\ ~snap.player.grounded /\ snap.player.vel.y < 0

\* the last step was a jump: only a jump leaves vel.y at JUMP_FORCE - GRAVITY
JumpHappened == player.vel.y = JUMP_FORCE - GRAVITY /\ ~player.grounded

\* C3, as stated: a jump happens only in a step that starts grounded and whose jump
\* input is newly asserted (asserted in this step and not in the previous one)
C3_Original ==
    JumpHappened => snap.player.grounded /\ keys.space /\ ~snap.keys.space

\* C3, amended: a jump happens exactly in the steps that start grounded with the
\* jump input asserted, whether or not it was asserted in the previous step
C3_JumpIffGroundedAndHeld ==
    JumpHappened <=> (snap.player.grounded /\ keys.space)

\* the jump input was held across a landing and the step after it jumped again
C3_Witness == JumpHappened /\ snap.keys.space /\ jumps = 2 /\ Landed = FALSE

\* C4, as stated: forward with backward adds no impulse, left with right leaves
\* yaw unchanged
C4_Original ==
    /\ (keys.up /\ keys.down) =>
          /\ player.vel.x = Damp(snap.player.vel.x)
          /\ player.vel.z = Damp(snap.player.vel.z)
    /\ (keys.left /\ keys.right) => player.yaw = snap.player.yaw

\* C4, amended: backward overrides forward and right overrides left: forward with
\* backward adds the backward impulse, left with right turns by -TURN_SPEED
C4_LaterKeyWins ==
    /\ (keys.up /\ keys.down) =>
          /\ player.vel.x =
                Damp(snap.player.vel.x - Impulse(Sin(player.yaw), Speed(keys), 1))
          /\ player.vel.z =
                Damp(snap.player.vel.z - Impulse(Cos(player.yaw), Speed(keys), 1))
    /\ (keys.left /\ keys.right) => player.yaw = snap.player.yaw - TURN_SPEED

C4_Witness ==
    keys.up /\ keys.down /\ player.vel.z < 0 /\ snap.player.vel.z = 0

\* one step without forward or backward input took horizontal velocity v0 to v1:
\* v1 is v0 * FRICTION to the grid, nothing added
Damped(v0, v1) ==
    /\ Sgn(v1) * Sgn(v0) >= 0
    /\ Abs(v1) * PERCENT <= Abs(v0) * FRICTION
    /\ Abs(v1) * PERCENT > Abs(v0) * FRICTION - PERCENT

\* C5: a step without forward or backward input multiplies both horizontal
\* velocity components by FRICTION and adds nothing, grounded or airborne, so the
\* speed never increases; and no glide lasts longer than 33 steps: after that
\* many steps without input the horizontal velocity is below the grid (zero)
C5_Friction ==
    /\ (Stepped /\ ~keys.up /\ ~keys.down) =>
          /\ Damped(snap.player.vel.x, player.vel.x)
          /\ Damped(snap.player.vel.z, player.vel.z)
    /\ glide <= 33

\* a glide in the air: no input, and the velocity shrank
C5_Witness ==
    /\ ~keys.up /\ ~keys.down /\ ~snap.player.grounded /\ ~player.grounded
    /\ snap.player.vel.z > 0 /\ player.vel.z < snap.player.vel.z /\ glide = 3

\* the last step had no input and started airborne above the floor, not rising
FellWithoutInput ==
    /\ Stepped /\ keys = NoKeys
    /\ ~snap.player.grounded /\ snap.player.pos.y > 0 /\ snap.player.vel.y <= 0

\* C6: a step without input that starts airborne above the floor and not rising
\* ends strictly lower: either lower by the velocity after gravity, or clamped
\* onto the floor; from the spawn state (0, 10, -400) it ends at 10 - 1.2
C6_Falls ==
    /\ FellWithoutInput =>
          /\ player.pos.y < snap.player.pos.y
          /\ \/ player.pos.y = snap.player.pos.y + snap.player.vel.y - GRAVITY
             \/ player.pos.y = 0 /\ player.grounded
    /\ (FellWithoutInput /\ snap.player = UMSpawn) =>
          player.pos = Vec(0, 1000 - GRAVITY, -40000)

\* the first step from the spawn state, without input
C6_Witness ==
    FellWithoutInput /\ snap.player = UMSpawn /\ player.pos.y = 880

----------------------------------------------------------------------------
(* Claims about the camera.  After a camera step, snap.cam is the camera at the *)
(* start of that step and player is the character already updated this frame.   *)

CamStepped == pc = "update" /\ frame > 0

\* offset d0 to the target before the step, d1 after it: d1 is (1 - CAM_SMOOTH) * d0
\* to the grid, on the same side of the target and not larger
Shrunk(d0, d1) ==
    /\ Sgn(d1) * Sgn(d0) >= 0
    /\ Abs(d1) <= Abs(d0)
    /\ Abs(d1) * PERCENT >= Abs(d0) * (PERCENT - CAM_SMOOTH)
    /\ Abs(d1) * PERCENT < Abs(d0) * (PERCENT - CAM_SMOOTH) + PERCENT

\* C7: on each axis one update_camera step leaves an offset to the target (taken
\* from the character as updated in this frame) of (1 - CAM_SMOOTH) times the
\* offset before the step: no overshoot, no change of sign, no growth
C7_CameraSmoothing ==
    CamStepped =>
        LET t == CamTarget(player)
        IN  /\ Shrunk(t.x - snap.cam.pos.x, t.x - cam.pos.x)
            /\ Shrunk(t.y - snap.cam.pos.y, t.y - cam.pos.y)
            /\ Shrunk(t.z - snap.cam.pos.z, t.z - cam.pos.z)

\* a camera step in a frame in which the character moved on all three axes
C7_Witness ==
    /\ CamStepped /\ frame >= 2
    /\ player.vel.x # 0 /\ player.vel.y # 0 /\ player.vel.z # 0
    /\ cam.pos.x # snap.cam.pos.x /\ cam.pos.y # snap.cam.pos.y
    /\ cam.pos.z # snap.cam.pos.z

----------------------------------------------------------------------------
(* Claims about project_triangle.  After the call, res is what it returned for *)
(* the arguments tri and view.                                                 *)

Projected == res # Pending

\* the three camera-space depths (rotated Z) of the call
Depths == DrawProject(tri, view).depth

\* C8: project_triangle returns None whenever all three camera-space depths are
\* below the near threshold
C8_NearRejected ==
    (Projected /\ \A i \in 1..3 : Depths[i] < NEAR) => res = None

\* rejected with all depths below the threshold, two of them in front of the camera
C8_Witness ==
    /\ Projected /\ res = None
    /\ \A i \in 1..3 : Depths[i] < NEAR
    /\ Depths[1] > MIN_DEPTH /\ Depths[2] > MIN_DEPTH /\ Depths[3] < MIN_DEPTH
    /\ Depths[3] > 0

\* C9, as stated: a result holds exactly three 2D points and a depth equal to the
\* sum of the three clamped depths divided by 3 (to one unit of the grid)
C9_Original ==
    (Projected /\ res # None) =>
        LET d == DrawProject(tri, view).div
        IN  /\ Len(res.pts) = 3
            /\ \A i \in 1..3 : Len(res.pts[i]) = 2
            /\ Abs(3 * res.z - (d[1] + d[2] + d[3])) <= 3

\* C10: a triangle with at least one depth at or above the near threshold passes
\* the near test (it can only be dropped by the screen-bounds test), and every
\* divisor of the perspective divide is at least the positive MIN_DEPTH
C10_StraddlingKept ==
    (Projected /\ \E i \in 1..3 : Depths[i] >= NEAR) =>
        LET tr == DrawProject(tri, view)
        IN  /\ ~tr.near
            /\ res = None => tr.culled
            /\ \A i \in 1..3 : tr.div[i] >= MIN_DEPTH /\ tr.div[i] > 0
            /\ \A i \in 1..3 : tr.div[i] >= Depths[i]

\* a triangle with one vertex in front and two behind the camera is returned
C10_Witness ==
    /\ Projected /\ res # None
    /\ Depths[1] >= NEAR /\ Depths[2] < 0 /\ Depths[3] < 0
    /\ DrawProject(tri, view).div[2] = MIN_DEPTH

\* the projected X and Y of the call, in tenths of a pixel
ProjX == { DrawProject(tri, view).pts[i][1] : i \in 1..3 }
ProjY == { DrawProject(tri, view).pts[i][2] : i \in 1..3 }

\* the call reached the screen-bounds test
BoundsTested == Projected /\ ~DrawProject(tri, view).near

InsideX(s) == s >= 0 - RENDER_WIDTH * PIXEL /\ s <= 2 * RENDER_WIDTH * PIXEL
InsideY(s) == s >= 0 - RENDER_HEIGHT * PIXEL /\ s <= 2 * RENDER_HEIGHT * PIXEL

\* C11, as stated: the screen-bounds test discards a triangle whenever all three
\* projected X lie outside [-W, 2W] (each beyond either end) or all three projected
\* Y lie outside [-H, 2H], and keeps every triangle with at least one X inside
\* [-W, 2W] and at least one Y inside [-H, 2H]
C11_Original ==
    BoundsTested =>
        /\ ((\A s \in ProjX : ~InsideX(s)) \/ (\A s \in ProjY : ~InsideY(s))) => res = None
        /\ ((\E s \in ProjX : InsideX(s)) /\ (\E s \in ProjY : InsideY(s))) => res # None

\* C11, amended: the screen-bounds test discards a triangle exactly when all three
\* projected X are below -W, or all three are above 2W, or all three projected Y
\* are below -H, or all three are above 2H; a triangle whose X (or Y) are all
\* outside the interval but beyond both of its ends is kept
C11_SameSideRejected ==
    BoundsTested =>
        (res = None <=>
            \/ \A s \in ProjX : s < 0 - RENDER_WIDTH * PIXEL
            \/ \A s \in ProjX : s > 2 * RENDER_WIDTH * PIXEL
            \/ \A s \in ProjY : s < 0 - RENDER_HEIGHT * PIXEL
            \/ \A s \in ProjY : s > 2 * RENDER_HEIGHT * PIXEL)

\* a triangle kept although none of its X is inside [-W, 2W]: one is beyond the
\* left end and one beyond the right end
C11_Witness ==
    /\ BoundsTested /\ res # None
    /\ \A s \in ProjX : ~InsideX(s)
    /\ \E s \in ProjX : s < 0 - RENDER_WIDTH * PIXEL
    /\ \E s \in ProjX : s > 2 * RENDER_WIDTH * PIXEL

----------------------------------------------------------------------------
(* Claims about Game.draw.  From the sort on, screen_tris is the sorted list; *)
(* the list before the sort is Survivors(level \o mesh, view).                *)

\* the sort of the current draw has run
Sorted == pc \in {"raster", "flip"}

\* the elements of s that have depth z, in their order in s
AtDepth(s, z) == SelectSeq(s, LAMBDA t : t.z = z)

Occurrences(s, x) == Cardinality({i \in 1..Len(s) : s[i] = x})

IsPermutation(s, t) ==
    /\ Len(s) = Len(t)
    /\ \A i \in 1..Len(s) : Occurrences(s, s[i]) = Occurrences(t, s[i])

NonIncreasing(s) == \A i \in 1..Len(s), j \in 1..Len(s) : i < j => s[i].z >= s[j].z

\* C12: the depth sort yields a permutation of the list of surviving triangles
\* whose depths are non-increasing, and triangles of equal depth keep the order
\* they had before the sort: level triangles before character triangles, each in
\* insertion order
C12_StableDepthSort ==
    Sorted =>
        LET before == Survivors(level, view) \o Survivors(mesh, view)
        IN  /\ IsPermutation(screen_tris, before)
            /\ NonIncreasing(screen_tris)
            /\ \A i \in 1..Len(before) :
                   AtDepth(screen_tris, before[i].z) = AtDepth(before, before[i].z)

\* a sorted list in which two different triangles of equal depth, the first from
\* the level and the second from the character, follow a nearer triangle's
\* farther neighbour: the sort moved elements and met a tie
C12_Witness ==
    /\ Sorted /\ Len(screen_tris) >= 3
    /\ screen_tris # Survivors(level \o mesh, view)
    /\ \E i \in 1..(Len(screen_tris) - 1) :
           /\ screen_tris[i].z = screen_tris[i + 1].z
           /\ screen_tris[i] # screen_tris[i + 1]
           /\ Survivors(level, view) # <<>>
           /\ screen_tris[i] = Survivors(level, view)[Len(Survivors(level, view))]
           /\ Survivors(mesh, view) # <<>>
           /\ screen_tris[i + 1] = Survivors(mesh, view)[1]

\* C13: in each frame the rasterizer is called exactly once for every triangle
\* that survived projection and for no other triangle, in the sorted order,
\* farthest first and nearest last
C13_RasterizedOnceInOrder ==
    /\ pc \in {"collect", "sort"} => polygons = <<>>
    /\ Sorted =>
        /\ IsPermutation(screen_tris, Survivors(level \o mesh, view))
        /\ NonIncreasing(screen_tris)
        /\ Len(polygons) <= Len(screen_tris)
        /\ \A i \in 1..Len(polygons) : polygons[i].pts = screen_tris[i].pts
    /\ pc = "flip" => Len(polygons) = Len(screen_tris)

\* a finished frame in which a triangle was dropped by the projection and the
\* others were drawn, the farthest strictly before the nearest
C13_Witness ==
    /\ pc = "flip"
    /\ Len(polygons) >= 2
    /\ Len(polygons) < Len(level) + Len(mesh)
    /\ screen_tris[1].z > screen_tris[Len(screen_tris)].z
    /\ polygons[1].pts # polygons[Len(polygons)].pts

\* the depths of the triangles that survived the projection of this draw
DrawnDepths == { screen_tris[i].z : i \in 1..Len(screen_tris) }

\* C14: for every base channel in 0..255 and every depth of a surviving triangle
\* the shaded channel lies in 0..255; of two depths the larger one never gives
\* the greater shaded channel; the brightness factor is never below 1 - 0.65
\* (stated for the depths collected by a draw, and for every polygon drawn)
C14_ShadingBounded ==
    /\ pc = "sort" =>
        \A z \in DrawnDepths :
            /\ Shade(z) * 100 >= 35 * SHADE_RANGE
            /\ \A c \in 0..255 :
                /\ Channel(c, z) \in 0..255
                /\ \A y \in DrawnDepths : z <= y => Channel(c, y) <= Channel(c, z)
    /\ Sorted =>
        \A i \in 1..Len(polygons), k \in 1..3 :
            /\ polygons[i].color[k] \in 0..255
            /\ polygons[i].color[k] * 100 > 35 * screen_tris[i].color[k] - 100
            /\ polygons[i].color[k] <= screen_tris[i].color[k]

\* a drawn triangle at a depth beyond the cap (its channels are 35 percent of the
\* base color) next to a nearer one that is shaded less
C14_Witness ==
    /\ pc = "flip"
    /\ \E i \in 1..Len(polygons), j \in 1..Len(polygons) :
           /\ screen_tris[i].z > SHADE_CAP
           /\ screen_tris[i].color = WHITE
           /\ polygons[i].color = <<89, 89, 89>>
           /\ screen_tris[j].z < SHADE_CAP
           /\ polygons[j].color[1] * 100 > 35 * screen_tris[j].color[1]

----------------------------------------------------------------------------
(* Claims about the life of the level *)

\* C15, as stated: Level construction runs exactly once per process; afterwards,
\* across any sequence of ticks, draws and menu/game-state transitions, the level
\* triangle list is never rebuilt, extended or otherwise modified
C15_Original == builds = 1 /\ level = GemLevel

----------------------------------------------------------------------------
(* Claims about the mesh builders and the level.  After a builder call, call *)
(* holds its arguments and the list it was given, and tris is the list now.  *)

\* the triangles the last builder call appended
Appended == SubSeq(tris, Len(call.before) + 1, Len(tris))

\* the list the last builder call was given is still the front of the list
BeforeKept == SubSeq(tris, 1, Len(call.before)) = call.before

\* all three vertices of t have the height y
InPlaneY(t, y) == t.v1.y = y /\ t.v2.y = y /\ t.v3.y = y
InPlaneX(t, x) == t.v1.x = x /\ t.v2.x = x /\ t.v3.x = x
InPlaneZ(t, z) == t.v1.z = z /\ t.v2.z = z /\ t.v3.z = z

\* the triangles of s and t are pairwise equal in all vertex coordinates and
\* colors over the length of s
PairwiseEqual(s, t) ==
    /\ Len(s) <= Len(t)
    /\ \A k \in 1..Len(s) :
           /\ s[k].v1 = t[k].v1 /\ s[k].v2 = t[k].v2 /\ s[k].v3 = t[k].v3
           /\ s[k].color = t[k].color

SegmentCalled == call.op \in {"add_cylinder", "add_cone"}

\* triangles appended per segment
PerSegment == IF call.op = "add_cylinder" THEN 3 ELSE 1

\* t has two equal vertices, hence no area
Collapsed(t) == t.v1 = t.v2 \/ t.v2 = t.v3 \/ t.v1 = t.v3

\* C17, as stated: add_cylinder and add_cone never fail for a malformed segment
\* count; for every integer segment count, 0, 1, 2 and negative values included,
\* the call completes without raising
C17_Original == SegmentCalled => call.raised = "none"

\* C17, amended: add_cylinder and add_cone raise ZeroDivisionError for the segment
\* count 0, before anything is appended; for every other segment count N the call
\* completes, appends nothing when N is negative and 3N (add_cylinder) or N
\* (add_cone) triangles when N is positive, each without area when N is 1, and
\* leaves the triangles already in the list in place
C17_RaisesOnlyForZero ==
    SegmentCalled =>
        LET n == call.args.segments
        IN  /\ call.raised = (IF n = 0 THEN "ZeroDivisionError" ELSE "none")
            /\ n = 0 => tris = call.before
            /\ BeforeKept
            /\ n < 0 => Len(Appended) = 0
            /\ n > 0 => Len(Appended) = PerSegment * n
            /\ n = 1 => \A i \in 1..Len(Appended) : Collapsed(Appended[i])

\* add_cylinder raised on a list that holds triangles, and left it as it was
C17_Witness ==
    /\ call.op = "add_cylinder" /\ call.args.segments = 0
    /\ call.raised = "ZeroDivisionError"
    /\ tris = call.before /\ Len(tris) > 0

\* C18: every add_box call appends exactly 10 triangles, two for each of the
\* top, front, back, left and right faces (top in top_col, front and back in
\* front_col, left and right in side_col), none of which lies in the bottom
\* plane y = by; the triangles already in the list are left unchanged and in
\* place
C18_BoxAppendsTen ==
    call.op = "add_box" =>
        LET a == call.args
            new == Appended
        IN  /\ Len(tris) = Len(call.before) + 10
            /\ BeforeKept
            /\ \A i \in 1..2 : new[i].color = a.top_col /\ InPlaneY(new[i], a.by + a.h)
            /\ \A i \in 3..4 : new[i].color = a.front_col /\ InPlaneZ(new[i], a.cz - Half(a.d))
            /\ \A i \in 5..6 : new[i].color = a.front_col /\ InPlaneZ(new[i], a.cz + Half(a.d))
            /\ \A i \in 7..8 : new[i].color = a.side_col /\ InPlaneX(new[i], a.cx - Half(a.w))
            /\ \A i \in 9..10 : new[i].color = a.side_col /\ InPlaneX(new[i], a.cx + Half(a.w))
            /\ \A i \in 1..10 : ~InPlaneY(new[i], a.by)

\* a box appended behind the triangles of an earlier builder call
C18_Witness ==
    /\ call.op = "add_box" /\ step = 2
    /\ Len(call.before) > 1
    /\ Len(tris) = Len(call.before) + 10

\* C19: for every segment count N >= 3, add_cylinder appends exactly 3N triangles
\* (N top-cap fan triangles sharing the top center vertex and 2N side-wall
\* triangles, none forming a bottom cap) and add_cone appends exactly N
\* triangles that all share the single apex vertex
C19_SegmentCounts ==
    (SegmentCalled /\ call.args.segments >= 3) =>
        LET a == call.args
            n == a.segments
            new == Appended
            top == Vec(a.cx, a.by + a.height, a.cz)
        IN  /\ BeforeKept
            /\ call.op = "add_cylinder" =>
                /\ Len(new) = 3 * n
                /\ \A k \in 0..(n - 1) :
                    /\ new[3 * k + 1].v1 = top
                    /\ new[3 * k + 1].color = a.top_col
                    /\ InPlaneY(new[3 * k + 1], a.by + a.height)
                    /\ \A i \in {3 * k + 2, 3 * k + 3} :
                        /\ new[i].color = a.side_col
                        /\ ~InPlaneY(new[i], a.by + a.height)
                        /\ \E v \in {new[i].v1, new[i].v2, new[i].v3} : v.y = a.by
                /\ \A i \in 1..Len(new) : ~InPlaneY(new[i], a.by)
            /\ call.op = "add_cone" =>
                /\ Len(new) = n
                /\ \A i \in 1..n :
                    /\ new[i].v3 = top
                    /\ new[i].v1.y = a.by /\ new[i].v2.y = a.by
                    /\ new[i].v1 # top /\ new[i].v2 # top

\* a cylinder of five segments appended behind a cone of three
C19_Witness ==
    /\ call.op = "add_cylinder" /\ call.args.segments = 5
    /\ Len(Appended) = 15
    /\ Len(call.before) \in {3, 4}
    /\ call.before[Len(call.before)].color = DARK_GREEN

----------------------------------------------------------------------------
(* Claims about landing *)

\* the height of the last step after vel.y was added (line 274), before the floor
\* test of line 277
IntegratedHeight == Integrate(ApplyGravity(ApplyJump(snap.player, keys))).pos.y

\* at floor height, airborne and moving vertically
AirborneOnFloor == player.pos.y = 0 /\ ~player.grounded /\ player.vel.y # 0

----------------------------------------------------------------------------
(* Claims about the walk cycle *)

----------------------------------------------------------------------------
(* Claims about the life of the character *)

\* C22, as stated: the character state is created once per process at its fixed
\* spawn position and is afterwards changed only by the per-tick Player.update;
\* no menu or game-state transition replaces or resets the player object: the
\* character that Game.handle_input leaves is the one it found
C22_Original == pc \in {"frame", "exit"} => player = snap.player

----------------------------------------------------------------------------
(* Claims about the order of a frame.  In FrameSpec snap is the state at the *)
(* start of the frame and keys is the frame's input.                          *)

FrameEnded == pc = "update" /\ frame > 0

\* the character and the camera of a frame whose camera step has run
CameraFollowed ==
    /\ player = PlayerUpdate(snap.player, keys)
    /\ cam.pos = CamMove(snap.cam.pos, CamTarget(player))
    /\ cam.yaw = Atan2(player.pos.x - cam.pos.x, player.pos.z - cam.pos.z)

\* C23: in every frame the steps run in the order character update, camera
\* update, draw: the camera target is computed from the character state already
\* advanced in that frame, the camera yaw from the camera position already
\* smoothed in that frame, and the projection uses the camera position and yaw
\* updated in that frame
C23_FrameOrder ==
    /\ pc \in {"update", "camera", "draw"}
    /\ pc = "camera" => player = PlayerUpdate(snap.player, keys) /\ cam = snap.cam
    /\ pc = "draw" => CameraFollowed
    /\ FrameEnded =>
            /\ CameraFollowed
            /\ view = [cam |-> cam.pos, yaw |-> cam.yaw]
            /\ mesh = GetMeshTris(player)
            /\ screen_tris = SortByDepth(Survivors(level \o mesh, view))
            /\ polygons = Polygons(screen_tris)

\* the end of a frame in which the character moved and turned: the camera that
\* follows the character of the start of the frame would be elsewhere, and the
\* drawing was made from the moved camera
C23_Witness ==
    /\ FrameEnded
    /\ player.pos # snap.player.pos /\ player.yaw # snap.player.yaw
    /\ cam.pos # snap.cam.pos
    /\ cam # UpdateCamera(snap.cam, snap.player)
    /\ view.cam = cam.pos /\ view.cam # snap.cam.pos
    /\ Len(polygons) > 150

----------------------------------------------------------------------------
(* Claims about the battlements and the towers.  After a builder call, call   *)
(* holds its arguments and the list it was given.                              *)

\* the coordinates of the triangles k1..k2 of s along the X axis (or the Z axis)
Coords(s, k1, k2, is_z_axis) ==
    UNION { LET t == s[k]
            IN  IF is_z_axis THEN {t.v1.z, t.v2.z, t.v3.z} ELSE {t.v1.x, t.v2.x, t.v3.x}
            : k \in k1..k2 }

Lowest(S) == CHOOSE m \in S : \A n \in S : m <= n
Highest(S) == CHOOSE m \in S : \A n \in S : m >= n

\* the division length / (2 * count - 1) and the halving of its result are exact
DividesEvenly(length, count) == length % (2 * (2 * count - 1)) = 0

\* C24: add_battlements with merlon count c >= 1 appends exactly c boxes (10c
\* triangles) whose centers are 2 * merlon_w apart along the chosen axis only (Z
\* when is_z_axis, else X), with merlon_w = length / (2c - 1); the row is
\* symmetric about the given center and its outer edges are at center -
\* length / 2 and center + length / 2 (to the grid: exactly where the division is
\* exact, and otherwise within one grid unit per merlon width of the span)
C24_Battlements ==
    (call.op = "add_battlements" /\ call.args.count >= 1) =>
        LET a == call.args
            c == a.count
            new == Appended
            merlon_w == TruncDiv(a.length, 2 * c - 1)
            center == IF a.is_z_axis THEN a.cz ELSE a.cx
            across == IF a.is_z_axis THEN a.cx ELSE a.cz
            lo(k) == Lowest(Coords(new, 10 * k - 9, 10 * k, a.is_z_axis))
            hi(k) == Highest(Coords(new, 10 * k - 9, 10 * k, a.is_z_axis))
            slack == IF DividesEvenly(a.length, c) THEN 0 ELSE 2 * c - 1
        IN  /\ Len(new) = 10 * c
            /\ BeforeKept
            /\ \A k \in 1..c :
                   /\ hi(k) - lo(k) = 2 * Half(merlon_w)
                   /\ Coords(new, 10 * k - 9, 10 * k, ~a.is_z_axis) =
                          {across - 800, across + 800}
                   /\ \A i \in (10 * k - 9)..(10 * k) :
                          {new[i].v1.y, new[i].v2.y, new[i].v3.y} \subseteq {a.by, a.by + 2200}
                   /\ Abs((lo(k) + hi(c + 1 - k)) - 2 * center) <= slack
            /\ \A k \in 1..(c - 1) :
                   (lo(k + 1) + hi(k + 1)) - (lo(k) + hi(k)) = 2 * (2 * merlon_w)
            /\ Abs(lo(1) - (center - Half(a.length))) <= slack
            /\ Abs(hi(c) - (center + Half(a.length))) <= slack

\* a row of three merlons over a span of 180 that the merlon count divides,
\* appended behind the triangles of an earlier call: its outer edges are exactly
\* at center - 90 and center + 90
C24_Witness ==
    /\ call.op = "add_battlements" /\ Len(call.before) > 1
    /\ call.args.count = 3 /\ call.args.length = 18000
    /\ Len(Appended) = 30
    /\ Lowest(Coords(Appended, 1, 10, call.args.is_z_axis)) + 9000 =
           (IF call.args.is_z_axis THEN call.args.cz ELSE call.args.cx)
    /\ Highest(Coords(Appended, 21, 30, call.args.is_z_axis)) - 9000 =
           (IF call.args.is_z_axis THEN call.args.cz ELSE call.args.cx)

\* the last call built a tower (add_peach_tower of either file)
TowerCalled == call.op \in {"add_peach_tower", "um_add_peach_tower"}

\* the triangles a tower is made of: a cylinder body of 8 segments, a cone roof
\* of 8 segments on top of it, a flag above the roof, six window boxes
TowerOfFourParts ==
    LET a == call.args
        new == Appended
        body == SubSeq(new, 1, 24)
        roof == SubSeq(new, 25, 32)
        flag == SubSeq(new, 33, 43)
        windows == SubSeq(new, 44, 103)
    IN  /\ Len(new) = 103
        /\ BeforeKept
        /\ body = AddCylinder(<<>>, a.cx, a.by, a.cz, a.radius, a.height, 8,
                              a.wall_color, a.wall_color)
        /\ \A i \in 1..8 :
               /\ roof[i].color = a.roof_color
               /\ roof[i].v3 = Vec(a.cx, a.by + a.height + a.roof_height, a.cz)
               /\ roof[i].v1.y = a.by + a.height /\ roof[i].v2.y = a.by + a.height
        /\ flag = AddFlag(<<>>, a.cx, flag[1].v1.y - 3500, a.cz)
        /\ flag[1].v1.y - 3500 > a.by + a.height + a.roof_height
        /\ flag[11].color = FLAG_RED
        /\ \A k \in 0..5 :
               \E wx \in {windows[10 * k + 1].v1.x + 700}, wz \in {windows[10 * k + 1].v1.z + 700},
                  wy \in {windows[10 * k + 1].v1.y - 1800} :
                   SubSeq(windows, 10 * k + 1, 10 * k + 10) =
                       Box(wx, wy, wz, 1400, 1800, 1400,
                           WINDOW_BLUE, WINDOW_BLUE, WINDOW_BLUE)

\* C25, as stated: every tower built by add_peach_tower consists of a cylinder
\* body, a cone roof, a flag (pole box plus one pennant triangle) placed above
\* the roof, and a ring of window boxes, as add_cylinder, add_cone, add_flag and
\* add_box build them: with 8 segments and 6 windows it appends exactly
\* 24 + 8 + 11 + 60 = 103 triangles
C25_Original == TowerCalled => TowerOfFourParts

----------------------------------------------------------------------------
(* Claims about the floor *)

\* the last tick took the character off the floor
LeftFloor == Stepped /\ snap.player.grounded /\ ~player.grounded

\* C26: at the end of every tick the height is at least 0; a grounded character
\* is at height 0 with no vertical velocity; and a tick that starts grounded and
\* ends airborne is a tick of a jump (jump input asserted, vel.y set to
\* JUMP_FORCE and then reduced by GRAVITY)
C26_FloorInvariants ==
    /\ player.pos.y >= 0
    /\ player.grounded => player.pos.y = 0 /\ player.vel.y = 0
    /\ LeftFloor => keys.space /\ JumpHappened

\* the second jump: the character landed, stood on the floor and left it again
C26_Witness ==
    /\ LeftFloor /\ jumps = 2
    /\ snap.player.pos.y = 0 /\ snap.player.vel.y = 0
    /\ player.pos.y = JUMP_FORCE - GRAVITY

----------------------------------------------------------------------------
(* Claims about the first landing *)

\* the character has not touched the floor yet: it is airborne and no jump
\* from the floor was made
BeforeFirstLanding == ~player.grounded /\ jumps = 0

\* C27: from the spawn (airborne, at rest, height 20) the character becomes
\* grounded under every input sequence; until then no tick is a jump, whatever
\* the jump input: the character does not rise and keeps a vertical velocity
\* that is a multiple of GRAVITY downward
C27_FirstLanding ==
    /\ <>player.grounded
    /\ [](BeforeFirstLanding =>
            /\ ~JumpHappened
            /\ player.vel.y <= 0
            /\ player.vel.y % GRAVITY = 0
            /\ player.pos.y <= 2000)

\* the tick of the first landing, with the jump input held: it lands and does
\* not jump
C27_Witness ==
    /\ Landed /\ jumps = 0 /\ keys.space
    /\ ~snap.player.grounded
    /\ snap.player.pos.y = 200 /\ snap.player.vel.y = 0 - 5 * GRAVITY

----------------------------------------------------------------------------
(* Long runs: Player.update of src/#####sm64.py and of src/geminism64.py over *)
(* many frames with the movement keys held                                 *)

\* frames of a long run
MaxRun == 40

\* the movement keys of a long run, in the order in which the environment goes
\* through them: none, running forward, running forward while turning left,
\* running backward
RunPhases ==
    << NoKeys,
       [NoKeys EXCEPT !.up = TRUE, !.shift = TRUE],
       [NoKeys EXCEPT !.up = TRUE, !.shift = TRUE, !.left = TRUE],
       [NoKeys EXCEPT !.down = TRUE, !.shift = TRUE] >>

PhaseOf(k) == CHOOSE i \in 1..Len(RunPhases) : RunPhases[i] = k

\* the keys the environment may hold on the next frame: those held now or those
\* of a later phase, turning only as far as a table of n angles reaches
RunChoices(turn_speed, n) ==
    { RunPhases[i] : i \in { j \in PhaseOf(keys)..Len(RunPhases) :
                               RunPhases[j].left => player.yaw < (n - 1) * turn_speed } }

\* src/geminism64.py after RETURN in the menu (lines 275-282, 291-293)
GemPlaying ==
    /\ state = "PLAY"
    /\ player = GemPlayerStart
    /\ level = GemLevel
    /\ cam = GemCamStart
    /\ builds = 2
    /\ keys = NoKeys
    /\ pc = "frame"
    /\ frame = 0
    /\ moves = 0
    /\ jumps = 0
    /\ glide = 0
    /\ snap = [player |-> player, cam |-> cam, keys |-> keys]
    /\ tri = NoTri
    /\ view = NoView
    /\ res = None
    /\ mesh = <<>> /\ screen_tris = <<>> /\ polygons = <<>>
    /\ NoBuild /\ NoClock

\* a frame's character step of the long run that takes the character to p
RunTo(p, k) ==
    /\ frame < MaxRun
    /\ keys' = k
    /\ player' = p
    /\ frame' = frame + 1
    /\ snap' = Snapshot
    /\ UNCHANGED <<cam, pc, moves, jumps, glide, tri, view, res, drawVars, buildVars, menuVars>>

\* src/#####sm64.py lines 440-441
RunTick ==
    /\ pc = "update"
    /\ \E k \in RunChoices(TURN_SPEED, Len(SinTab)) : RunTo(PlayerUpdate(player, k), k)

\* src/geminism64.py lines 416-417
GemRunTick ==
    /\ pc = "frame"
    /\ \E k \in RunChoices(GEM_TURN_SPEED, Len(GemSinTab)) : RunTo(GemPlayerUpdate(player, k), k)

RunInit == Init \/ GemPlaying

RunNext == RunTick \/ GemRunTick

RunSpec == RunInit /\ [][RunNext]_vars

----------------------------------------------------------------------------
(* Claims about the horizontal speed *)

\* vel.x ** 2 + vel.z ** 2
SpeedSquare(p) == p.vel.x * p.vel.x + p.vel.z * p.vel.z

\* speed <= impulse * friction / (1 - friction), with both sides squared and
\* multiplied by (1 - friction) ** 2
WithinLimit(p, impulse, friction) ==
    SpeedSquare(p) * (PERCENT - friction) * (PERCENT - friction)
        <= (impulse * friction) * (impulse * friction)

\* the velocity of the last step of src/geminism64.py before its speed cap
GemBeforeCap == GemApplyFriction(GemApplyMove(GemApplyTurn(snap.player, keys), keys))

\* C28: from zero horizontal velocity the horizontal speed of src/#####sm64.py
\* never exceeds RUN_SPEED * FRICTION / (1 - FRICTION); in src/geminism64.py the
\* speed never exceeds MOVE_SPEED * FRICTION / (1 - FRICTION), which is below
\* MAX_SPEED, and the speed cap leaves the velocity of every step as it is
C28_SpeedBounded ==
    /\ pc = "update" => WithinLimit(player, RUN_SPEED, FRICTION)
    /\ pc = "frame" =>
        /\ WithinLimit(player, GEM_MOVE_SPEED, GEM_FRICTION)
        /\ GEM_MOVE_SPEED * GEM_FRICTION < GEM_MAX_SPEED * (PERCENT - GEM_FRICTION)
        /\ Stepped => GemSpeedCap(GemBeforeCap) = GemBeforeCap

\* running straight ahead the speed has stopped growing, less than a hundredth
\* of RUN_SPEED * FRICTION / (1 - FRICTION) below that limit
C28_Witness ==
    /\ pc = "update" /\ keys.up /\ keys.shift /\ ~keys.left
    /\ player.vel.x = 0
    /\ player.vel.z = snap.player.vel.z
    /\ player.vel.z * PERCENT * (PERCENT - FRICTION) > 99 * RUN_SPEED * FRICTION

----------------------------------------------------------------------------
(* The platform variant src/####acgamingsm64.py: Y grows downward *)

\* lines 28-32
AC_GRAVITY == 80
AC_JUMP_FORCE == 1600
AC_MOVE_SPEED == 600
AC_CAM_DIST == 40000
AC_CAM_HEIGHT == 15000
\* lines 128-129: the turn of one frame, 0.1 rad
AC_TURN == 10
\* line 153: the default ground, and line 164: the reach of a platform's snap
AC_GROUND == 20000
AC_SNAP == 2000

\* frames on which the environment moves the character forward or backward
MaxSteps == 45

\* math.sin and math.cos at the multiples k * 0.1 rad, k = 0..16, in thousandths
AcSinTab ==
    << 0, 100, 199, 296, 389, 479, 565, 644, 717, 783, 841, 891, 932, 964, 985,
       997, 1000 >>

AcCosTab ==
    << 1000, 995, 980, 955, 921, 878, 825, 765, 697, 622, 540, 454, 362, 267, 170,
       71, -29 >>

AcSin(yaw) ==
    LET k == TruncDiv(yaw, AC_TURN)
    IN  IF k < 0 THEN 0 - AcSinTab[1 - k] ELSE AcSinTab[1 + k]

AcCos(yaw) == AcCosTab[1 + Abs(TruncDiv(yaw, AC_TURN))]

\* Game.__init__, lines 293-300: x, y, z, width, depth of each platform
AcPlatforms ==
    << [x |-> 0, y |-> 20000, z |-> 0, w |-> 100000, d |-> 100000],
       [x |-> 20000, y |-> 15000, z |-> 0, w |-> 10000, d |-> 10000],
       [x |-> 35000, y |-> 10000, z |-> 0, w |-> 10000, d |-> 10000],
       [x |-> 50000, y |-> 5000, z |-> 0, w |-> 10000, d |-> 10000],
       [x |-> 0, y |-> 5000, z |-> -30000, w |-> 20000, d |-> 10000],
       [x |-> -30000, y |-> 10000, z |-> 0, w |-> 15000, d |-> 15000] >>

\* Player.__init__, lines 117-123
AcNewPlayer(x, y, z) ==
    [x |-> x, y |-> y, z |-> z, vel_y |-> 0, yaw |-> 0, grounded |-> FALSE]

\* lines 128-129: both tests are made, LEFT and RIGHT together cancel
AcTurn(p, k) ==
    [p EXCEPT !.yaw = @ - (IF k.left THEN AC_TURN ELSE 0)
                        + (IF k.right THEN AC_TURN ELSE 0)]

\* lines 131-141: UP before DOWN
AcMove(p, k) ==
    LET dx == TruncDiv(AcSin(p.yaw) * AC_MOVE_SPEED, TRIG)
        dz == TruncDiv(AcCos(p.yaw) * AC_MOVE_SPEED, TRIG)
    IN  IF k.up THEN [p EXCEPT !.x = @ + dx, !.z = @ + dz]
        ELSE IF k.down THEN [p EXCEPT !.x = @ - dx, !.z = @ - dz]
        ELSE p

\* lines 144-146
AcJump(p, k) ==
    IF k.space /\ p.grounded
    THEN [p EXCEPT !.vel_y = 0 - AC_JUMP_FORCE, !.grounded = FALSE]
    ELSE p

\* lines 148-149
AcFall(p) == [p EXCEPT !.vel_y = @ + AC_GRAVITY, !.y = @ + p.vel_y + AC_GRAVITY]

\* lines 162-164: the character is over the platform and within its snap
AcSnaps(p, plat) ==
    /\ 2 * plat.x - plat.w < 2 * p.x /\ 2 * p.x < 2 * plat.x + plat.w
    /\ 2 * plat.z - plat.d < 2 * p.z /\ 2 * p.z < 2 * plat.z + plat.d
    /\ p.y >= plat.y - AC_SNAP /\ p.y <= plat.y + AC_SNAP

\* lines 153-166: the default ground, or the height of the last platform of the
\* list that snaps
GroundHeight(p) ==
    LET hits == { i \in 1..Len(AcPlatforms) : AcSnaps(p, AcPlatforms[i]) }
    IN  IF hits = {} THEN AC_GROUND
        ELSE AcPlatforms[CHOOSE i \in hits : \A j \in hits : j <= i].y

\* the floor collision leaving the grounded flag as it was when nothing is hit
AcCollideKeepsFlag(p) ==
    IF p.y > GroundHeight(p)
    THEN [p EXCEPT !.y = GroundHeight(p), !.vel_y = 0, !.grounded = TRUE]
    ELSE p

\* lines 152, 168-171
AcCollide(p) ==
    IF p.y > GroundHeight(p)
    THEN [p EXCEPT !.y = GroundHeight(p), !.vel_y = 0, !.grounded = TRUE]
    ELSE [p EXCEPT !.grounded = FALSE]

\* Player.update as far as the floor collision, lines 125-149
AcBeforeCollide(p, k) == AcFall(AcJump(AcMove(AcTurn(p, k), k), k))

\* Player.update, lines 125-171
AcPlayerUpdate(p, k) == AcCollide(AcBeforeCollide(p, k))

\* Game.run, lines 338-344: the camera of the frame
AcCamera(p) ==
    [pos |-> Vec(p.x - TruncDiv(AcSin(p.yaw) * AC_CAM_DIST, TRIG),
                 p.y - AC_CAM_HEIGHT,
                 p.z - TruncDiv(AcCos(p.yaw) * AC_CAM_DIST, TRIG)),
     yaw |-> p.yaw]

\* Game.__init__, line 290: Player(0, 0, 0); Game.run, line 319: cam_yaw = 0, the
\* other camera variables are assigned in the first frame
AcInit ==
    /\ player = AcNewPlayer(0, 0, 0)
    /\ cam = [pos |-> Vec(0, 0, 0), yaw |-> 0]
    /\ keys = NoKeys
    /\ pc = "loop"
    /\ frame = 0
    /\ moves = 0
    /\ jumps = 0
    /\ glide = 0
    /\ snap = [player |-> player, cam |-> cam, keys |-> keys]
    /\ tri = NoTri
    /\ view = NoView
    /\ res = None
    /\ NoDraw /\ NoBuild /\ NoMenu

\* the keys the environment may hold: it turns right before it moves, as far as
\* the tables reach, walks backward while facing ahead and forward once fully
\* turned
AcKeyChoices ==
    { [m EXCEPT !.space = s] :
        m \in {NoKeys}
            \cup (IF moves = 0 /\ player.yaw < (Len(AcSinTab) - 1) * AC_TURN
                  THEN {[NoKeys EXCEPT !.right = TRUE]} ELSE {})
            \cup (IF moves < MaxSteps /\ player.yaw = 0
                  THEN {[NoKeys EXCEPT !.down = TRUE]} ELSE {})
            \cup (IF moves < MaxSteps /\ player.yaw = (Len(AcSinTab) - 1) * AC_TURN
                  THEN {[NoKeys EXCEPT !.up = TRUE]} ELSE {}),
        s \in IF player.grounded /\ jumps >= MaxJumps THEN {FALSE} ELSE BOOLEAN }

\* Game.run, lines 321-344: one frame of the loop; the events of the frame only
\* clear the loop's flag or play a sound (lines 325-332)
AcFrame ==
    /\ pc = "loop"
    /\ \E k \in AcKeyChoices :
        /\ keys' = k
        /\ player' = AcPlayerUpdate(player, k)
        /\ moves' = IF k.up \/ k.down THEN moves + 1 ELSE moves
        /\ jumps' = IF k.space /\ player.grounded THEN jumps + 1 ELSE jumps
    /\ cam' = AcCamera(player')
    /\ snap' = Snapshot
    /\ UNCHANGED <<pc, frame, glide, tri, view, res, drawVars, buildVars, menuVars>>

AcSpec == AcInit /\ [][AcFrame]_vars

----------------------------------------------------------------------------
(* Claims about the platform variant *)

\* the character of the last frame after line 149, before the floor collision
AcFallen == AcBeforeCollide(snap.player, keys)

\* the last frame clamped the character onto the ground or a platform (before the
\* first frame snap is the spawn, from which no frame clamps)
Clamped == AcFallen.y > GroundHeight(AcFallen)

\* C30: after every Player.update of src/####acgamingsm64.py y is at most the
\* default ground height 200; grounded is true at the end of a frame exactly when
\* the frame clamped the character onto the ground or platform height, and then
\* vel_y is 0 and y is that height
C30_GroundedIffClamped ==
    /\ player.y <= AC_GROUND
    /\ player.grounded <=> Clamped
    /\ Clamped => player.vel_y = 0 /\ player.y = GroundHeight(AcFallen)

\* the character stood on the second platform of the list (height 150), walked
\* off its edge and is airborne above the ground
C30_Witness ==
    /\ snap.player.grounded /\ ~keys.space
    /\ snap.player.y = AcPlatforms[2].y
    /\ ~player.grounded /\ player.y = AcPlatforms[2].y + AC_GRAVITY

----------------------------------------------------------------------------
(* The variant src/ultramario4k0x.py: menu, intro and play.  Its physics      *)
(* constants (lines 22-27) and its Player.update (lines 98-160) are those of   *)
(* src/geminism64.py; in the intro Player.update runs with auto_move.          *)

\* line 282: self.intro_duration, in milliseconds
INTRO_DURATION == 10000

\* the time one frame takes, in milliseconds (line 500: self.clock.tick(FPS)
\* returns when the frame has lasted long enough)
FrameTime == 2500

\* frames of the menu and of the game that are explored; the frames of the intro
\* are not bounded
MaxIdle == 1

\* math.sin and math.cos at 0.5 + k * 0.08 rad, k = -3..3, in thousandths: the
\* angles of a character that init_intro turned to 0.5 (line 297)
UXSinTab == << 257, 333, 408, 479, 548, 613, 674 >>
UXCosTab == << 966, 943, 913, 878, 836, 790, 738 >>

UXSin(yaw) == UXSinTab[4 + TruncDiv(yaw - 50, GEM_TURN_SPEED)]
UXCos(yaw) == UXCosTab[4 + TruncDiv(yaw - 50, GEM_TURN_SPEED)]

\* lines 117-121
UXApplyMove(p, k) ==
    [p EXCEPT
        !.vel.x = @ + TruncDiv(Forward(k) * GEM_MOVE_SPEED * UXSin(p.yaw), TRIG),
        !.vel.z = @ + TruncDiv(Forward(k) * GEM_MOVE_SPEED * UXCos(p.yaw), TRIG)]

\* Player.update, lines 98-160, without auto_move
UXPlayerUpdate(p, k) ==
    FloorCollide(Integrate(GemApplyGravity(GemApplyJump(
        GemSpeedCap(GemApplyFriction(UXApplyMove(GemApplyTurn(p, k), k))), k))))

\* lines 112-114, 138-143: with auto_move the character runs forward, does not
\* turn, and jumps when grounded at a time t with t % 2000 < 20
AutoKeys(t) == [NoKeys EXCEPT !.up = TRUE, !.space = (t % 2000 < 20)]

\* Game.init_intro, lines 296-297
IntroPlayer == [GemNewPlayer(-20000, 5000, -20000) EXCEPT !.yaw = 50]

\* lines 328-330, 342-344: the point cam_dist behind the character and
\* cam_height above it
UXBehind(p) ==
    Vec(p.pos.x - TruncDiv(UXSin(p.yaw) * GEM_CAM_DIST, TRIG),
        p.pos.y + GEM_CAM_HEIGHT,
        p.pos.z - TruncDiv(UXCos(p.yaw) * GEM_CAM_DIST, TRIG))

\* lines 337-339, 351-353: the camera at np looking at the character
UXLookAt(p, np) ==
    CHOOSE c \in { [pos |-> np, yaw |-> Atan2(d.x, d.z)] :
                      d \in { Vec(p.pos.x - np.x, 0, p.pos.z - np.z) } } : TRUE

\* lines 327, 332-334: the point at t thousandths of the way from the start of the
\* intro path, (0, 300, 200), to e
UXOnPath(e, t) ==
    Vec(TruncDiv(e.x * t, TRIG),
        30000 + TruncDiv((e.y - 30000) * t, TRIG),
        20000 + TruncDiv((e.z - 20000) * t, TRIG))

\* Game.update_camera(auto=True), lines 321-339, elapsed milliseconds after the
\* intro started: t = min(1.0, elapsed / intro_duration)
UXIntroCamera(p, elapsed) ==
    CHOOSE c \in { UXLookAt(p, np) :
                      np \in { UXOnPath(UXBehind(p),
                                        IF elapsed >= INTRO_DURATION THEN TRIG
                                        ELSE TruncDiv(elapsed * TRIG, INTRO_DURATION)) } } : TRUE

\* lines 346-349: c moved lerp_speed of the way to t
UXLerp(c, t) ==
    Vec(c.x + TruncDiv((t.x - c.x) * GEM_LERP_SPEED, PERCENT),
        c.y + TruncDiv((t.y - c.y) * GEM_LERP_SPEED, PERCENT),
        c.z + TruncDiv((t.z - c.z) * GEM_LERP_SPEED, PERCENT))

\* Game.update_camera(auto=False), lines 341-353
UXUpdateCamera(c, p) ==
    CHOOSE n \in { UXLookAt(p, np) : np \in { UXLerp(c.pos, UXBehind(p)) } } : TRUE

\* Game.handle_input, lines 306-318, sending ESCAPE to the menu from the intro
\* as well
UXNextStateEscapeToMenu(s, e) ==
    IF e = "ESCAPE" THEN "MENU"
    ELSE IF e = "RETURN" THEN (IF s = "MENU" THEN "INTRO" ELSE s)
    ELSE IF e = "SPACE" /\ s = "INTRO" THEN "PLAY"
    ELSE s

\* Game.handle_input, lines 306-318: self.state after the key event e
UXNextState(s, e) ==
    IF e = "ESCAPE"
    THEN (IF s = "PLAY" THEN "MENU" ELSE IF s = "INTRO" THEN "PLAY" ELSE s)
    ELSE IF e = "RETURN" THEN (IF s = "MENU" THEN "INTRO" ELSE s)
    ELSE IF e = "SPACE" /\ s = "INTRO" THEN "PLAY"
    ELSE s

\* the events pygame.event.get() may hold: a key press or the window's close
\* button, and possibly a second press of ESCAPE behind it; "none" when no event
\* is left
UXEvents ==
    IF pc = "input2" THEN {"none", "ESCAPE"}
    ELSE {"none", "ESCAPE", "SPACE", "QUIT"}
            \cup (IF state = "MENU" /\ builds >= MaxBuilds THEN {} ELSE {"RETURN"})

\* Game.__init__, lines 271-292: state = "MENU", then init_gameplay(); the level
\* is not modelled
UXInit ==
    /\ state = "MENU"
    /\ player = GemNewPlayer(0, 5000, 0)
    /\ cam = [pos |-> Vec(0, 10000, -30000), yaw |-> 0]
    /\ builds = 1
    /\ NoClock
    /\ keys = NoKeys
    /\ pc = "input"
    /\ frame = 0
    /\ moves = 0
    /\ jumps = 0
    /\ glide = 0
    /\ snap = [player |-> player, cam |-> cam, keys |-> keys]
    /\ tri = NoTri
    /\ view = NoView
    /\ res = None
    /\ NoDraw /\ NoBuild

\* Game.handle_input, lines 301-318: one pass of its loop, for the next event e
\* of the frame, of which there are at most two; QUIT ends the process
UXHandleEvent ==
    /\ pc \in {"input", "input2"}
    /\ \E e \in UXEvents :
        /\ event' = e
        /\ state' = UXNextState(state, e)
        /\ IF e = "RETURN" /\ state = "MENU"
           THEN /\ player' = IntroPlayer
                /\ intro_start_time' = ticks
                /\ builds' = builds + 1
           ELSE UNCHANGED <<player, intro_start_time, builds>>
        /\ pc' \in IF e = "QUIT" THEN {"exit"}
                   ELSE IF e = "none" \/ pc = "input2" THEN {"frame"}
                   ELSE {"input2", "frame"}
    /\ snap' = Snapshot
    /\ UNCHANGED <<keys, cam, ticks, frame, moves, jumps, glide, tri, view, res,
                   drawVars, buildVars>>

\* Game.run, lines 479-480, 499-500: a frame of the menu
UXMenuFrame ==
    /\ pc = "frame"
    /\ state = "MENU"
    /\ frame < MaxIdle
    /\ frame' = frame + 1
    /\ ticks' = ticks + FrameTime
    /\ pc' = "input"
    /\ snap' = Snapshot
    /\ UNCHANGED <<player, keys, cam, moves, jumps, glide, tri, view, res,
                   drawVars, buildVars, state, builds, intro_start_time, event>>

\* Game.run, lines 481-492, 499-500: a frame of the intro
UXIntroFrame ==
    /\ pc = "frame"
    /\ state = "INTRO"
    /\ \E p \in {UXPlayerUpdate(player, AutoKeys(ticks))} :
        /\ player' = p
        /\ cam' = UXIntroCamera(p, ticks - intro_start_time)
    /\ state' = IF ticks - intro_start_time > INTRO_DURATION THEN "PLAY" ELSE "INTRO"
    /\ ticks' = ticks + FrameTime
    /\ pc' = "input"
    /\ snap' = Snapshot
    /\ UNCHANGED <<keys, frame, moves, jumps, glide, tri, view, res,
                   drawVars, buildVars, builds, intro_start_time, event>>

\* Game.run, lines 493-500: a frame of the game
UXPlayFrame ==
    /\ pc = "frame"
    /\ state = "PLAY"
    /\ frame < MaxIdle
    /\ \E k \in {c \in KeyChoices : ~c.shift /\ ~c.down /\ ~c.right /\ ~c.left /\ ~c.space} :
           \E p \in {UXPlayerUpdate(player, k)} :
               TickTo(p, k) /\ cam' = UXUpdateCamera(cam, p)
    /\ frame' = frame + 1
    /\ ticks' = ticks + FrameTime
    /\ pc' = "input"
    /\ UNCHANGED <<tri, view, res, drawVars, buildVars, state, builds,
                   intro_start_time, event>>

UXNext == UXHandleEvent \/ UXMenuFrame \/ UXIntroFrame \/ UXPlayFrame

\* Game.run never leaves its loop (line 476: while True) and clock.tick returns,
\* hence the fairness
UXSpec == UXInit /\ [][UXNext]_vars /\ WF_vars(UXNext)

----------------------------------------------------------------------------
(* Claims about the menu, the intro and the game of src/ultramario4k0x.py *)

\* the state is one of the three
StateKnown == state \in {"MENU", "INTRO", "PLAY"}

\* the intro is entered only from the menu, by the RETURN key
IntroFromMenu ==
    [][state' = "INTRO" /\ state # "INTRO" => state = "MENU" /\ event' = "RETURN"]_vars

\* no step takes the state from INTRO to MENU
NeverIntroToMenu == [][state = "INTRO" => state' # "MENU"]_vars

\* a frame in the menu leaves the character and the camera as they are
MenuFrameIdle ==
    [][pc = "frame" /\ state = "MENU" => player' = player /\ cam' = cam]_vars

\* C29, as stated: the state is always MENU, INTRO or PLAY; INTRO is entered only
\* from MENU on RETURN; once INTRO is entered the state eventually is PLAY; the
\* state never goes from INTRO to MENU; a frame in MENU updates neither the
\* character nor the camera
C29_Original ==
    /\ []StateKnown
    /\ IntroFromMenu
    /\ (state = "INTRO") ~> (state = "PLAY")
    /\ NeverIntroToMenu
    /\ MenuFrameIdle

\* C29, amended: as stated, except that once INTRO is entered the state
\* eventually is PLAY or the process has ended: QUIT during the intro ends the
\* process with the state still INTRO
C29_IntroEndsInPlayOrExit ==
    /\ []StateKnown
    /\ IntroFromMenu
    /\ (state = "INTRO") ~> (state = "PLAY" \/ pc = "exit")
    /\ NeverIntroToMenu
    /\ MenuFrameIdle

\* the intro ran its full time: the frame that found more than intro_duration
\* elapsed has set the state to PLAY
C29_Witness ==
    /\ state = "PLAY" /\ pc = "input" /\ event = "none"
    /\ ticks - FrameTime - intro_start_time > INTRO_DURATION
    /\ ticks - 2 * FrameTime - intro_start_time <= INTRO_DURATION
    /\ frame = 0

====
